---------------------------- MODULE Spec2Model ----------------------------
(***************************************************************************)
(* Model of the reactor scheduler and of the two plant sequencers of the   *)
(* ten-reactor rig: the polling sequencer InterOpWorker.run                *)
(* (inter_oper.py, "v1") and the event-driven WorkerState machine          *)
(* (inter_operv2.py, "v2"), together with the device workers whose         *)
(* observed values and confirmation signals the sequencers wait for.       *)
(*                                                                         *)
(* Units.  Power percentages are fixed-point, in hundredths of a percent   *)
(* (10.00 % is 1000).  total_energy_consumed is kept in units of 1/600 kWh *)
(* (k * 0.1 * max_power * interval / 60 = k * max_power * interval / 600). *)
(* Python lists indexed from 0 are sequences indexed from 1: element i of  *)
(* relays_to_oc is position i+1.  None is the empty sequence.              *)
(***************************************************************************)
EXTENDS Integers, Sequences, FiniteSets, TLC

(***************************************************************************)
(* Bounds of the model                                                     *)
(***************************************************************************)
MaxTicks == 3        \* len(self.solar_data): samples in the trace
MaxStops == 1        \* stop() calls per run
MaxResets == 1       \* reset() calls (SpecOp only)
MaxStarts == 2       \* run() invocations (SpecOp only)
MaxUpdates == 4      \* scheduler updates after a construction (SpecSched)
MaxSearches == 2     \* find_best_x runs on one trace (SpecSearch)
MaxStale == 2        \* bytes left in the input buffer of a line (SpecLine)
MaxCloseCalls == 8   \* calls of a close function (SpecShutdown)
MaxSends == 3        \* sends of one checked command (SpecChecked)
MaxStrayTicks == 2   \* samples processed under stray confirmations (SpecStray)

(***************************************************************************)
(* Program constants                                                       *)
(***************************************************************************)
NumReactors == 10
MaxPower == 100      \* self.max_power / self.best_x handed to the scheduler
NumRelayChannels == 16
Interval == 60
ServoClosePos == 3100
ServoOpenPos == 2030
ServoCloseChecked == 3000
ServoOpenChecked == 2200
ServoClosePolled == 2900
RateTolerance == 10

Reactors == 0 .. (NumReactors - 1)
Servos == 1 .. NumReactors
Workers == { "gearpump", "servo", "relay" }

\* The workers whose slots are followed through their mutexes.
LockWorkers == { "gearpump", "servo" }

\* A list that was never assigned (channel_states, new_channel_states).
Unbound == << 0 - 1 >>

\* No checked command has been given yet.
NoChecked ==
    [ kind |-> "none", target |-> 0, scheduled |-> FALSE, sends |-> 0,
      emits |-> 0, last_send |-> "none", channel_states |-> << >>,
      response_states |-> << >> ]

\* No poll of the power supply has run yet.
NoPoll ==
    [ reply |-> "none", failed_at |-> 0, off_reply |-> "none",
      state_before |-> "None", voltage_before |-> 0 ]

\* The serial ports MainGUI opens.
Ports == { "servo", "gearpump", "voltage", "leakage", "pressure", "relay",
           "power_supply" }

\* The slots of each device worker that use its serial line.
SlotsOf ==
    [ w \in Workers |->
        IF w = "gearpump"
        THEN { "monitor_gearpump_state", "set_flow_rate", "set_rotate_rate",
               "set_rotate_rate_checked", "check_rotate_rate", "set_pump_state",
               "turnoff_pump_checked", "check_pump_close" }
        ELSE IF w = "servo"
        THEN { "poll_servos", "write_position", "disable_torque",
               "write_position_checked_close", "check_position_close",
               "write_position_checked_open", "check_position_open",
               "disable_torque_checked_close", "check_torque_close",
               "disable_torque_checked_open", "check_torque_open" }
        ELSE { "monitor_relay_state", "control_relay", "control_relay_checked",
               "check_relay_state" } ]
Channels == 1 .. NumRelayChannels
None == << >>

\* Samples of the normalized power trace offered to a tick (5 %, 15 %, 25 %, 35 %).
PowerSamples == {500, 1500, 2500, 3500}

\* Inputs of get_operational_reactors explored on their own: every decile
\* boundary with its neighbours, below 0 and above 100 %.
PowerDomain ==
    { b * 1000 + d : b \in (0 - 1) .. 11, d \in {0, 1, 500, 990, 999} }

(***************************************************************************)
(* ReactorScheduler                                                        *)
(***************************************************************************)
get_operational_reactors_off(available_power) ==
    IF available_power <= 1000 THEN 0
    ELSE IF available_power < 2000 THEN 1
    ELSE IF available_power < 3000 THEN 2
    ELSE IF available_power < 4000 THEN 3
    ELSE IF available_power < 5000 THEN 4
    ELSE IF available_power < 6000 THEN 5
    ELSE IF available_power < 7000 THEN 6
    ELSE IF available_power < 8000 THEN 7
    ELSE IF available_power < 9000 THEN 8
    ELSE IF available_power < 10000 THEN 9
    ELSE 10

get_operational_reactors(available_power) ==
    IF available_power < 1000 THEN 0
    ELSE IF available_power < 2000 THEN 1
    ELSE IF available_power < 3000 THEN 2
    ELSE IF available_power < 4000 THEN 3
    ELSE IF available_power < 5000 THEN 4
    ELSE IF available_power < 6000 THEN 5
    ELSE IF available_power < 7000 THEN 6
    ELSE IF available_power < 8000 THEN 7
    ELSE IF available_power < 9000 THEN 8
    ELSE IF available_power < 10000 THEN 9
    ELSE 10

ReactorScheduler(num_reactors, interval, max_power) ==
    [ num_reactors |-> num_reactors,
      max_power |-> max_power,
      reactor_minutes |-> [r \in 0 .. (num_reactors - 1) |-> 0],
      interval |-> interval,
      running_reactors |-> {},
      total_energy_consumed |-> 0,
      relays_to_oc |-> None ]

\* sorted(range(num_reactors), key=reactor_minutes): r comes before q.
RuntimeBefore(s, r, q) ==
    \/ s.reactor_minutes[r] < s.reactor_minutes[q]
    \/ s.reactor_minutes[r] = s.reactor_minutes[q] /\ r < q

\* sorted(seq, key=...): Python's sort is stable, elements of equal key keep
\* their order in seq.  keys maps an element to its key.
\* (StableSort_last: the faulty variant that takes equal keys last first.)
RECURSIVE StableSort_last(_, _)
StableSort_last(seq, keys) ==
    IF seq = << >> THEN << >>
    ELSE LET i == CHOOSE i \in 1 .. Len(seq) :
                     /\ \A j \in 1 .. Len(seq) : keys[seq[i]] <= keys[seq[j]]
                     /\ \A j \in (i + 1) .. Len(seq) : keys[seq[j]] > keys[seq[i]]
             rest == SubSeq(seq, 1, i - 1) \o SubSeq(seq, i + 1, Len(seq))
         IN  << seq[i] >> \o StableSort_last(rest, keys)

RECURSIVE StableSort(_, _)
StableSort(seq, keys) ==
    IF seq = << >> THEN << >>
    ELSE LET i == CHOOSE i \in 1 .. Len(seq) :
                     /\ \A j \in 1 .. Len(seq) : keys[seq[i]] <= keys[seq[j]]
                     /\ \A j \in 1 .. (i - 1) : keys[seq[j]] > keys[seq[i]]
             rest == SubSeq(seq, 1, i - 1) \o SubSeq(seq, i + 1, Len(seq))
         IN  << seq[i] >> \o StableSort(rest, keys)

\* reactors_by_runtime = sorted(range(self.num_reactors), key=reactor_minutes)
reactors_by_runtime(s) ==
    StableSort([ i \in 1 .. s.num_reactors |-> i - 1 ], s.reactor_minutes)

\* for reactor_index in reactors_by_runtime:
\*     if len(self.running_reactors) < num_active_reactors: add(reactor_index)
RECURSIVE ActivationLoop(_, _, _)
ActivationLoop(order, running_reactors, num_active_reactors) ==
    IF order = << >> THEN running_reactors
    ELSE ActivationLoop(Tail(order),
                        IF Cardinality(running_reactors) < num_active_reactors
                        THEN running_reactors \cup {Head(order)}
                        ELSE running_reactors,
                        num_active_reactors)

\* The reactors the activation loop adds: it walks reactors_by_runtime and
\* adds while fewer than num_active_reactors are running (adding a running
\* reactor changes nothing).
ReactorsToAdd(s, num_active_reactors) ==
    ActivationLoop(reactors_by_runtime(s), s.running_reactors,
                   num_active_reactors) \ s.running_reactors

\* The sets the deactivation loop may remove: the first
\* len(running) - num_active_reactors entries of
\* sorted(running_reactors, key=-minutes).  The sort is stable over the
\* iteration order of a Python set, which is not fixed by the values, so
\* among reactors of equal minutes any may come first.
\* (ExcessChoices_short: the faulty variant that removes one reactor less.)
ExcessChoices_short(s, num_active_reactors) ==
    LET n == Cardinality(s.running_reactors) - num_active_reactors - 1
    IN  { E \in SUBSET s.running_reactors :
            /\ Cardinality(E) = n
            /\ \A e \in E : \A o \in s.running_reactors \ E :
                  s.reactor_minutes[e] >= s.reactor_minutes[o] }

ExcessChoices(s, num_active_reactors) ==
    LET n == Cardinality(s.running_reactors) - num_active_reactors
    IN  { E \in SUBSET s.running_reactors :
            /\ Cardinality(E) = n
            /\ \A e \in E : \A o \in s.running_reactors \ E :
                  s.reactor_minutes[e] >= s.reactor_minutes[o] }

\* self.relays_to_oc[reactor_index] = 1 on a list of 16 zeros: element
\* reactor_index is position reactor_index + 1.
\* (RelayBits_shifted: the faulty variant that sets the next element.)
RelayBits_shifted(active) == [ i \in Channels |-> IF (i - 2) \in active THEN 1 ELSE 0 ]

RelayBits(active) == [ i \in Channels |-> IF (i - 1) \in active THEN 1 ELSE 0 ]

\* energy_consumed = num_active_reactors * (0.1 * max_power) * (interval / 60),
\* in units of 1/600 kWh.
\* (energy_consumed_running: the faulty variant that counts the reactors
\* running before the update.)
energy_consumed_running(s, num_active_reactors) ==
    Cardinality(s.running_reactors) * s.max_power * s.interval

energy_consumed(s, num_active_reactors) ==
    num_active_reactors * s.max_power * s.interval

\* for reactor_index in self.running_reactors: reactor_minutes[...] += interval
\* (runtime_update_all: the faulty variant that credits every reactor.)
runtime_update_all(s, now) ==
    [ r \in DOMAIN s.reactor_minutes |-> s.reactor_minutes[r] + s.interval ]

runtime_update(s, now) ==
    [ r \in DOMAIN s.reactor_minutes |->
        IF r \in now THEN s.reactor_minutes[r] + s.interval
        ELSE s.reactor_minutes[r] ]

\* update_reactor_minutes_v2 with the removed set E (empty unless the count
\* is lowered).
\* (update_reactor_minutes_v2_reselect: the faulty variant that, on a
\* raise, selects all the running reactors anew by runtime.)
update_reactor_minutes_v2_reselect(s, num_active_reactors, E) ==
    LET now ==
            IF num_active_reactors < Cardinality(s.running_reactors)
            THEN s.running_reactors \ E
            ELSE IF num_active_reactors > Cardinality(s.running_reactors)
            THEN ActivationLoop(reactors_by_runtime(s), {}, num_active_reactors)
            ELSE s.running_reactors
    IN  [ s EXCEPT
            !.total_energy_consumed = @ + energy_consumed(s, num_active_reactors),
            !.running_reactors = now,
            !.reactor_minutes = runtime_update(s, now),
            !.relays_to_oc = RelayBits(now) ]

update_reactor_minutes_v2(s, num_active_reactors, E) ==
    LET now ==
            IF num_active_reactors < Cardinality(s.running_reactors)
            THEN s.running_reactors \ E
            ELSE IF num_active_reactors > Cardinality(s.running_reactors)
            THEN s.running_reactors \cup ReactorsToAdd(s, num_active_reactors)
            ELSE s.running_reactors
    IN  [ s EXCEPT
            !.total_energy_consumed = @ + energy_consumed(s, num_active_reactors),
            !.running_reactors = now,
            !.reactor_minutes = runtime_update(s, now),
            !.relays_to_oc = RelayBits(now) ]

\* update_reactor_minutes: the same without the relay list.
update_reactor_minutes(s, num_active_reactors, E) ==
    [ update_reactor_minutes_v2(s, num_active_reactors, E) EXCEPT
        !.relays_to_oc = s.relays_to_oc ]

\* The removed sets schedule_reactors_v2([available_power]) may choose.
RemovalChoices(s, num_active_reactors) ==
    IF num_active_reactors < Cardinality(s.running_reactors)
    THEN ExcessChoices(s, num_active_reactors)
    ELSE { {} }

get_gearpump_rotate_rate(num_active_reactors) ==
    << 0, 1340, 1452, 1588, 1753, 1860, 2000, 2190, 2320, 2484, 2600 >>[num_active_reactors + 1]

get_ps_voltage(num_active_reactors) ==
    << 0, 10, 20, 30, 40, 50, 60, 70, 80, 90, 100 >>[num_active_reactors + 1]

(***************************************************************************)
(* Efficiency search.  A candidate x is kept in hundredths (1.25 is 125).  *)
(* The max_power of a trial scheduler, self.max_power / x, is kept in      *)
(* units of 100 / XScale kW so that it is an integer for every candidate;  *)
(* the energy of a trial and the energy generated are in the matching unit *)
(* and an efficiency is the exact fraction num / den.                      *)
(***************************************************************************)
XScale == 30
NoX == 0                          \* best_x = None
Zero == [num |-> 0, den |-> 1]    \* the number 0

\* The fraction with a positive denominator.
Normal(a) == IF a.den < 0 THEN [num |-> 0 - a.num, den |-> 0 - a.den] ELSE a

\* a > b for two fractions with positive denominators, by whole parts and
\* then remainders (no product is formed, so nothing exceeds the integers
\* of the checker).
RECURSIVE GreaterPos(_, _)
GreaterPos(a, b) ==
    LET qa == a.num \div a.den
        qb == b.num \div b.den
        ra == a.num % a.den
        rb == b.num % b.den
    IN  IF qa # qb THEN qa > qb
        ELSE IF ra = 0 THEN FALSE
        ELSE IF rb = 0 THEN TRUE
        ELSE GreaterPos([num |-> b.den, den |-> rb], [num |-> a.den, den |-> ra])

\* a > b for two efficiencies
GreaterThan(a, b) == GreaterPos(Normal(a), Normal(b))

\* calculate_efficiency(total_solar_power)
\* (calculate_efficiency_nozero: the faulty variant without the zero test.)
calculate_efficiency_nozero(s, total_solar_power) ==
    [num |-> s.total_energy_consumed,
     den |-> IF total_solar_power = 0 THEN 1 ELSE total_solar_power]

calculate_efficiency(s, total_solar_power) ==
    IF total_solar_power = 0 THEN Zero
    ELSE [num |-> s.total_energy_consumed, den |-> total_solar_power]

RECURSIVE SeqSum(_)
SeqSum(seq) == IF seq = << >> THEN 0 ELSE Head(seq) + SeqSum(Tail(seq))

\* resampled_data['InvPDC_kW_Avg'].max()
SeqMax(seq) ==
    CHOOSE m \in { seq[i] : i \in 1 .. Len(seq) } :
       \A i \in 1 .. Len(seq) : seq[i] <= m


(***************************************************************************)
(* State                                                                   *)
(***************************************************************************)
VARIABLES
    impl,                        \* "v1" = inter_oper.py, "v2" = inter_operv2.py
    scheduler,                   \* self.scheduler
    running,                     \* self.running
    index,                       \* sample index (self.index; local index of v1 run)
    state,                       \* WorkerState; for v1 the position of run()
    state_timer,                 \* self.state_timer.isActive()
    reactors_to_close,
    reactors_to_open,
    reactors_to_distorque_close, \* v1: reactors_to_distorque of the close branch
    reactors_to_distorque_open,  \* v1: reactors_to_distorque of the open branch
    num_active_reactors_new,
    available_power,
    finished,                    \* number of finished.emit()
    relay_cmd,                   \* states of the last relay button_checked
    relay_coils,                 \* channel states the relay bank reports
    relay_state_received,        \* v1: self.relay_state_received
    chk_relay,                   \* a check_relay_state is scheduled
    ps_cmd,                      \* value of the last ps button_checked
    voltage_set,                 \* ps_worker.voltage_set
    chk_ps,                      \* a check_set_voltage is scheduled
    pump_cmd,                    \* value of the last gearpump button_checked
    cur_rotate_rate,             \* gearpump_worker.cur_rotate_rate
    chk_pump,                    \* a check_rotate_rate is scheduled
    servo_goal,                  \* last position written to each servo
    servos_pos,                  \* servo_control_worker.servos_pos
    servos_load,                 \* servo_control_worker.servos_load
    chk_close,                   \* servos with a scheduled check_position_close
    chk_open,                    \* servos with a scheduled check_position_open
    chk_tor_close,               \* servos with a scheduled check_torque_close
    chk_tor_open,                \* servos with a scheduled check_torque_open
    issued,                      \* history: commands issued in the transition
    direction,                   \* history: "close" / "open" of that transition
    processed,                   \* history: indices handed to schedule_reactors_v2
    stop_calls,
    reset_calls,
    start_calls,
    prev_power,                  \* previous input of get_operational_reactors
    prev_target,                 \* and its result
    prev_scheduler,              \* history: the scheduler before its last update
    last_target,                 \* history: target of that update (-1: none yet)
    trace,                       \* history: powers scheduled since construction
    solar_data,                  \* self.solar_data (kW per interval)
    self_max_power,              \* self.max_power
    x_values,                    \* candidate list of the running find_best_x
    x_index,                     \* its position in the list (0: no search running)
    best_x,                      \* its best_x
    best_efficiency,             \* its best_efficiency
    trial,                       \* scheduler of the last calculate_efficiency_for_x
    efficiency,                  \* last value returned by calculate_efficiency
    generated_arg,               \* and the argument it was called with
    results,                      \* history: what each find_best_x returned
    slave_id,                    \* GearPumpController.slave_id
    request,                     \* the request frame last constructed (bytes)
    request_args,                \* what it was constructed from
    response,                    \* the bytes handed to the parser
    parsed,                      \* what the parser returned or raised
    call,                        \* the device-client call last made
    io_log,                      \* what that call did on its serial line, in order
    in_buffer,                   \* stale bytes in the input buffer of the line
    read_got,                    \* what the read of that call returned
    worker_running,              \* self.running of each device worker
    poll_timer,                  \* each worker's poll timer: "active" / "stopped"
    cur_state,                   \* GearpumpControlWorker.cur_state ("None" before a read)
    poll_log,                    \* the last poll tick: its monitor and its read attempts
    mutex,                       \* self.mutex of each device worker: the slot holding it, or "free"
    in_slot,                     \* per worker and slot: transactions still to make (-1: not running)
    line_busy,                   \* per line: the slot whose request is written and not yet answered
    overlapped,                  \* history: a request was written while another was in progress
    last_done,                   \* history: worker and kind of slot of the last transaction
    window,                      \* the main window: "open", or "closed" once closeEvent has run
    port_open,                   \* per serial port: ser.is_open
    port_closes,                 \* per serial port: how many times ser.close() ran
    close_calls,                 \* calls of close_connection / close_serial made so far
    checked,                     \* the checked command under way: target, scheduled check, sends, emissions
    observed,                    \* the value the worker of that command holds for its check
    wait_v1,                     \* the wait loop of inter_oper.py on that command: "none", "waiting", "passed"
    ps_cur_state,                \* PowerSupplyWorker.cur_state ("None" before a poll)
    ps_output,                   \* the output of the supply itself: "ON" / "OFF"
    ps_poll,                     \* history: the last poll of the supply and what it started from
    turn_off_chain,              \* the turn_off_checked under way: scheduled check, sends
    held,                        \* the thread inside each QMutexLocker block
    thread_at,                   \* where each thread is: event loop, blocked, locked
    queued                       \* slot calls posted to each worker thread

seqVars == << running, index, state, state_timer, finished >>
setVars == << reactors_to_close, reactors_to_open,
              reactors_to_distorque_close, reactors_to_distorque_open >>
tickVars == << num_active_reactors_new, available_power >>
relayVars == << relay_cmd, relay_coils, relay_state_received, chk_relay >>
psVars == << ps_cmd, voltage_set, chk_ps >>
pumpVars == << pump_cmd, cur_rotate_rate, chk_pump >>
servoVars == << servo_goal, servos_pos, servos_load,
                chk_close, chk_open, chk_tor_close, chk_tor_open >>
histVars == << issued, direction, processed >>
ctlVars == << stop_calls, reset_calls, start_calls >>
schedVars == << prev_scheduler, last_target, trace >>
searchVars == << solar_data, self_max_power, x_values, x_index, best_x,
                 best_efficiency, trial, efficiency, generated_arg, results >>
frameVars == << slave_id, request, request_args, response, parsed >>
lineVars == << call, io_log, in_buffer, read_got >>
monitorVars == << worker_running, poll_timer, cur_state, poll_log >>
mutexVars == << mutex, in_slot, line_busy, overlapped, last_done >>
shutdownVars == << window, port_open, port_closes, close_calls >>
checkedVars == << checked, observed, wait_v1 >>
powerVars == << ps_cur_state, ps_output, ps_poll, turn_off_chain >>
lockVars == << held, thread_at, queued >>
deviceVars == << lineVars, monitorVars, mutexVars, shutdownVars, checkedVars, powerVars, lockVars >>
targetVars == << prev_power, prev_target, schedVars, searchVars, frameVars,
                deviceVars >>
coreVars == << impl, scheduler, seqVars, setVars, tickVars, relayVars,
               psVars, pumpVars, servoVars, histVars, ctlVars,
               prev_power, prev_target, schedVars, searchVars >>
nonFrameVars == << coreVars, deviceVars >>

vars == << impl, scheduler, seqVars, setVars, tickVars, relayVars, psVars,
           pumpVars, servoVars, histVars, ctlVars, targetVars >>

WaitStates ==
    { "WAIT_RELAY_STATE_CLOSE", "WAIT_POWER_SUPPLY_CLOSE",
      "WAIT_GEARPUMP_RATE_CLOSE", "WAIT_SERVO_MOTOR_CLOSE",
      "WAIT_DISABLE_TORQUE_CLOSE", "WAIT_SERVO_MOTOR_OPEN",
      "WAIT_GEARPUMP_RATE_OPEN", "WAIT_DISABLE_TORQUE_OPEN",
      "WAIT_POWER_SUPPLY_OPEN", "WAIT_RELAY_STATE_OPEN" }

\* State after construction of the worker and of the device workers, the
\* monitors having polled the plant at rest: relays off, valves closed,
\* torque released, supply at 0 V, pump stopped.
Init ==
    /\ impl \in {"v1", "v2"}
    /\ scheduler = ReactorScheduler(NumReactors, Interval, MaxPower)
    /\ running = TRUE
    /\ index = 0
    /\ state = "IDLE"
    /\ state_timer = FALSE
    /\ reactors_to_close = {}
    /\ reactors_to_open = {}
    /\ reactors_to_distorque_close = {}
    /\ reactors_to_distorque_open = {}
    /\ num_active_reactors_new = 0
    /\ available_power = 0
    /\ finished = 0
    /\ relay_cmd = RelayBits({})
    /\ relay_coils = RelayBits({})
    /\ relay_state_received = RelayBits({})
    /\ chk_relay = FALSE
    /\ ps_cmd = 0
    /\ voltage_set = 0
    /\ chk_ps = FALSE
    /\ pump_cmd = 0
    /\ cur_rotate_rate = 0
    /\ chk_pump = FALSE
    /\ servo_goal = [s \in Servos |-> ServoClosePos]
    /\ servos_pos = [s \in Servos |-> ServoClosePos]
    /\ servos_load = [s \in Servos |-> 0]
    /\ chk_close = {}
    /\ chk_open = {}
    /\ chk_tor_close = {}
    /\ chk_tor_open = {}
    /\ issued = << >>
    /\ direction = "none"
    /\ processed = << >>
    /\ stop_calls = 0
    /\ reset_calls = 0
    /\ start_calls = 0
    /\ prev_power = 0
    /\ prev_target = 0
    /\ prev_scheduler = scheduler
    /\ last_target = 0 - 1
    /\ trace = << >>
    /\ solar_data = << >>
    /\ self_max_power = 0
    /\ x_values = << >>
    /\ x_index = 0
    /\ best_x = NoX
    /\ best_efficiency = Zero
    /\ trial = ReactorScheduler(NumReactors, Interval, 0)
    /\ efficiency = Zero
    /\ generated_arg = 0
    /\ results = << >>
    /\ slave_id = 1
    /\ request = << >>
    /\ request_args = None
    /\ response = << >>
    /\ parsed = None
    /\ call = "none"
    /\ io_log = << >>
    /\ in_buffer = 0
    /\ read_got = "no read"
    /\ worker_running = [w \in Workers |-> TRUE]
    /\ poll_timer = [w \in Workers |-> "active"]
    /\ cur_state = "None"
    /\ poll_log = [monitor |-> "none", attempts |-> << >>]
    /\ mutex = [w \in Workers |-> "free"]
    /\ in_slot = [w \in Workers |-> [s \in SlotsOf[w] |-> 0 - 1]]
    /\ line_busy = [w \in Workers |-> "none"]
    /\ overlapped = [w \in Workers |-> FALSE]
    /\ last_done = [worker |-> "none", kind |-> "none"]
    /\ window = "open"
    /\ port_open = [p \in Ports |-> TRUE]
    /\ port_closes = [p \in Ports |-> 0]
    /\ close_calls = 0
    /\ checked = NoChecked
    /\ observed = 0
    /\ wait_v1 = "none"
    /\ ps_cur_state = "None"
    /\ ps_output = "OFF"
    /\ ps_poll = NoPoll
    /\ turn_off_chain = [scheduled |-> FALSE, sends |-> 0]
    /\ held = [ m \in LockWorkers \cup { "io_worker" } |-> "free" ]
    /\ thread_at = [ t \in LockWorkers \cup { "io_worker", "gui" } |-> [ pos |-> IF t = "io_worker" THEN "run" ELSE "event_loop", slot |-> "none", wants |-> "none" ] ]
    /\ queued = [ w \in LockWorkers |-> { } ]

(***************************************************************************)
(* Readings a monitor may hold when a value is looked at: the value it     *)
(* held before, or the one the device reaches by following its last        *)
(* command.  A device that never follows the command keeps the old value.  *)
(***************************************************************************)
RelayReadings == {relay_coils} \cup (IF relay_cmd = None THEN {} ELSE {relay_cmd})
VoltageReadings == {voltage_set, ps_cmd}
RateReadings == {cur_rotate_rate, pump_cmd}
PosReadings(s) == {servos_pos[s], servo_goal[s]}
LoadReadings(s) == {servos_load[s], 0}

Abs(x) == IF x < 0 THEN 0 - x ELSE x

ServosOf(reactor_set) == { r + 1 : r \in reactor_set }
IdleReactors == { id_r \in 0 .. 9 : id_r \notin scheduler.running_reactors }


(***************************************************************************)
(* Event-driven sequencer (inter_operv2.py).                               *)
(*                                                                         *)
(* Every slot runs to completion on the worker's thread, so a slot and the *)
(* SET_* handler that process_next_state dispatches into are one step.     *)
(* The re-dispatch into CHECK_TIME and PROCESS_INTERVAL is a step of its   *)
(* own: every other slot is guarded by a WAIT_* state or overwrites the    *)
(* state, so none can tell these two states from the moment before.        *)
(***************************************************************************)
finish_worker ==
    /\ state' = "FINISHED"
    /\ finished' = finished + 1

run ==
    /\ impl = "v2"
    /\ state = "IDLE"
    /\ running' = TRUE
    /\ state' = "CHECK_TIME"
    /\ start_calls' = start_calls + 1
    /\ UNCHANGED << impl, scheduler, index, state_timer, finished, setVars,
                    tickVars, relayVars, psVars, pumpVars, servoVars,
                    histVars, stop_calls, reset_calls, targetVars >>

check_time_state ==
    /\ impl = "v2"
    /\ state = "CHECK_TIME"
    /\ ~state_timer
    /\ IF ~running \/ index >= MaxTicks
       THEN finish_worker /\ UNCHANGED state_timer
       ELSE \E elapsed_due \in BOOLEAN :
              IF elapsed_due
              THEN state' = "PROCESS_INTERVAL" /\ UNCHANGED << state_timer, finished >>
              ELSE state_timer' = TRUE /\ UNCHANGED << state, finished >>
    /\ UNCHANGED << impl, scheduler, running, index, setVars, tickVars,
                    relayVars, psVars, pumpVars, servoVars, histVars,
                    ctlVars, targetVars >>

on_timer_timeout ==
    /\ impl = "v2"
    /\ state_timer
    /\ \E elapsed_due \in BOOLEAN :
          IF elapsed_due
          THEN state' = "PROCESS_INTERVAL" /\ state_timer' = FALSE
          ELSE UNCHANGED << state, state_timer >>
    /\ UNCHANGED << impl, scheduler, running, index, finished, setVars,
                    tickVars, relayVars, psVars, pumpVars, servoVars,
                    histVars, ctlVars, targetVars >>

\* set_relay_state_close / set_relay_state_open: the relay command.
set_relay_state(wait_state, relays) ==
    /\ relay_cmd' = relays
    /\ chk_relay' = (impl = "v2")
    /\ state' = wait_state
    /\ UNCHANGED << relay_coils, relay_state_received >>

\* open_servo_motor: an open command for every running reactor.
open_servo_motor(running_reactors) ==
    /\ reactors_to_open' = running_reactors
    /\ servo_goal' = [ s \in Servos |->
                         IF (s - 1) \in running_reactors
                         THEN ServoOpenPos ELSE servo_goal[s] ]
    /\ servos_load' = [ s \in Servos |->
                          IF (s - 1) \in running_reactors
                          THEN 1 ELSE servos_load[s] ]
    /\ chk_open' = IF impl = "v2"
                   THEN chk_open \cup ServosOf(running_reactors)
                   ELSE chk_open
    /\ state' = "WAIT_SERVO_MOTOR_OPEN"
    /\ UNCHANGED << servos_pos, chk_close, chk_tor_close, chk_tor_open >>

\* The scheduling of one sample and the first command of the transition,
\* common to process_interval_state and to the tick of run() in v1.
Tick(power, E) ==
    LET num_active_reactors_old == Cardinality(scheduler.running_reactors)
        new == get_operational_reactors(power)
    IN  /\ available_power' = power
        /\ num_active_reactors_new' = new
        /\ scheduler' = update_reactor_minutes_v2(scheduler, new, E)
        /\ processed' = Append(processed, index)
        /\ IF new < num_active_reactors_old
           THEN /\ set_relay_state("WAIT_RELAY_STATE_CLOSE", scheduler'.relays_to_oc)
                /\ issued' = << "relay" >>
                /\ direction' = "close"
                /\ UNCHANGED << index, servoVars, reactors_to_open,
                                reactors_to_distorque_open >>
           ELSE IF new > num_active_reactors_old
           THEN /\ open_servo_motor(scheduler'.running_reactors)
                /\ issued' = << "valve_open" >>
                /\ direction' = "open"
                /\ reactors_to_distorque_open' =
                       IF impl = "v1" THEN scheduler'.running_reactors
                       ELSE reactors_to_distorque_open
                /\ UNCHANGED << index, relayVars >>
           ELSE /\ index' = index + 1
                /\ state' = "CHECK_TIME"
                /\ UNCHANGED << issued, direction, relayVars, servoVars,
                                reactors_to_open, reactors_to_distorque_open >>
        /\ UNCHANGED << impl, running, state_timer, finished,
                        reactors_to_close, reactors_to_distorque_close,
                        psVars, pumpVars, ctlVars, targetVars >>

process_interval_state ==
    /\ impl = "v2"
    /\ state = "PROCESS_INTERVAL"
    /\ IF ~running
       THEN /\ finish_worker
            /\ UNCHANGED << impl, scheduler, running, index, state_timer,
                            setVars, tickVars, relayVars, psVars, pumpVars,
                            servoVars, histVars, ctlVars, targetVars >>
       ELSE \E power \in PowerSamples :
              \E E \in RemovalChoices(scheduler, get_operational_reactors(power)) :
                 Tick(power, E)


(***************************************************************************)
(* Command handlers of the two sequences.  Each is the part of a step that *)
(* issues one command; the caller states what else is unchanged.           *)
(***************************************************************************)
set_power_supply(wait_state, count) ==
    /\ ps_cmd' = get_ps_voltage(count)
    /\ chk_ps' = (impl = "v2")
    /\ state' = wait_state
    /\ issued' = Append(issued, "ps")
    /\ UNCHANGED voltage_set

\* (set_gearpump_rate_one_less: the faulty variant that takes the rate of
\* one reactor fewer.)
set_gearpump_rate_one_less(wait_state, count) ==
    /\ pump_cmd' = get_gearpump_rotate_rate(IF count = 0 THEN 0 ELSE count - 1)
    /\ chk_pump' = (impl = "v2")
    /\ state' = wait_state
    /\ issued' = Append(issued, "pump")
    /\ UNCHANGED cur_rotate_rate

set_gearpump_rate(wait_state, count) ==
    /\ pump_cmd' = get_gearpump_rotate_rate(count)
    /\ chk_pump' = (impl = "v2")
    /\ state' = wait_state
    /\ issued' = Append(issued, "pump")
    /\ UNCHANGED cur_rotate_rate

\* close_servo_motor: a close command for every reactor that is not running.
\* (close_servo_motor_all: the faulty variant that closes every valve.)
close_servo_motor_all ==
    /\ reactors_to_close' = IdleReactors
    /\ servo_goal' = [ s \in Servos |-> ServoClosePos ]
    /\ servos_load' = [ s \in Servos |-> 1 ]
    /\ chk_close' = IF impl = "v2"
                    THEN chk_close \cup ServosOf(IdleReactors) ELSE chk_close
    /\ state' = "WAIT_SERVO_MOTOR_CLOSE"
    /\ issued' = Append(issued, "valve_close")

close_servo_motor ==
    /\ reactors_to_close' = IdleReactors
    /\ servo_goal' = [ s \in Servos |->
                         IF (s - 1) \in IdleReactors
                         THEN ServoClosePos ELSE servo_goal[s] ]
    /\ servos_load' = [ s \in Servos |->
                          IF (s - 1) \in IdleReactors THEN 1 ELSE servos_load[s] ]
    /\ chk_close' = IF impl = "v2"
                    THEN chk_close \cup ServosOf(IdleReactors) ELSE chk_close
    /\ state' = "WAIT_SERVO_MOTOR_CLOSE"
    /\ issued' = Append(issued, "valve_close")

disable_torque_close ==
    /\ reactors_to_distorque_close' = IdleReactors
    /\ chk_tor_close' = IF impl = "v2"
                        THEN chk_tor_close \cup ServosOf(IdleReactors)
                        ELSE chk_tor_close
    /\ state' = "WAIT_DISABLE_TORQUE_CLOSE"
    /\ issued' = Append(issued, "torque")

disable_torque_open ==
    /\ reactors_to_distorque_open' = scheduler.running_reactors
    /\ chk_tor_open' = IF impl = "v2"
                       THEN chk_tor_open \cup ServosOf(scheduler.running_reactors)
                       ELSE chk_tor_open
    /\ state' = "WAIT_DISABLE_TORQUE_OPEN"
    /\ issued' = Append(issued, "torque")

\* End of a transition: solar_reactor_signal, index += 1, back to CHECK_TIME.
\* (transition_done_stay: the faulty variant that keeps the index.)
transition_done_stay ==
    /\ index' = index
    /\ state' = "CHECK_TIME"
    /\ UNCHANGED issued

transition_done ==
    /\ index' = index + 1
    /\ state' = "CHECK_TIME"
    /\ UNCHANGED issued

(***************************************************************************)
(* Slots of the event-driven sequencer.  Each assigns every variable but   *)
(* those of the device whose worker emitted the signal.                    *)
(***************************************************************************)
on_relay_state_changed ==
    IF state = "WAIT_RELAY_STATE_CLOSE"
    THEN /\ set_power_supply("WAIT_POWER_SUPPLY_CLOSE",
                             Cardinality(scheduler.running_reactors))
         /\ UNCHANGED << impl, scheduler, running, index, state_timer,
                         finished, setVars, tickVars, pumpVars, servoVars,
                         direction, processed, ctlVars, targetVars >>
    ELSE IF state = "WAIT_RELAY_STATE_OPEN"
    THEN /\ transition_done
         /\ UNCHANGED << impl, scheduler, running, state_timer, finished,
                         setVars, tickVars, psVars, pumpVars, servoVars,
                         direction, processed, ctlVars, targetVars >>
    ELSE UNCHANGED << impl, scheduler, seqVars, setVars, tickVars, psVars,
                      pumpVars, servoVars, histVars, ctlVars, targetVars >>

on_voltage_set ==
    IF state = "WAIT_POWER_SUPPLY_CLOSE"
    THEN /\ set_gearpump_rate("WAIT_GEARPUMP_RATE_CLOSE",
                              Cardinality(scheduler.running_reactors))
         /\ UNCHANGED << impl, scheduler, running, index, state_timer,
                         finished, setVars, tickVars, relayVars, servoVars,
                         direction, processed, ctlVars, targetVars >>
    ELSE IF state = "WAIT_POWER_SUPPLY_OPEN"
    THEN /\ set_relay_state("WAIT_RELAY_STATE_OPEN", scheduler.relays_to_oc)
         /\ issued' = Append(issued, "relay")
         /\ UNCHANGED << impl, scheduler, running, index, state_timer,
                         finished, setVars, tickVars, pumpVars, servoVars,
                         direction, processed, ctlVars, targetVars >>
    ELSE UNCHANGED << impl, scheduler, seqVars, setVars, tickVars, relayVars,
                      pumpVars, servoVars, histVars, ctlVars, targetVars >>

\* The part of servoVars a rotate-rate confirmation may change is the one
\* close_servo_motor / disable_torque_open write.
on_rotate_rate_set ==
    IF state = "WAIT_GEARPUMP_RATE_CLOSE"
    THEN /\ close_servo_motor
         /\ UNCHANGED << impl, scheduler, running, index, state_timer,
                         finished, reactors_to_open,
                         reactors_to_distorque_close,
                         reactors_to_distorque_open, tickVars, relayVars,
                         psVars, servos_pos, chk_open, chk_tor_close,
                         chk_tor_open, direction, processed, ctlVars,
                         targetVars >>
    ELSE IF state = "WAIT_GEARPUMP_RATE_OPEN"
    THEN /\ disable_torque_open
         /\ UNCHANGED << impl, scheduler, running, index, state_timer,
                         finished, reactors_to_close, reactors_to_open,
                         reactors_to_distorque_close, tickVars, relayVars,
                         psVars, servo_goal, servos_pos, servos_load,
                         chk_close, chk_open, chk_tor_close, direction,
                         processed, ctlVars, targetVars >>
    ELSE UNCHANGED << impl, scheduler, seqVars, setVars, tickVars, relayVars,
                      psVars, servoVars, histVars, ctlVars, targetVars >>

\* (on_servo_closed_unguarded: the faulty variant without the test of
\* self.state.)
on_servo_closed_unguarded(servo_id) ==
    /\ reactors_to_close' = reactors_to_close \ {servo_id - 1}
    /\ IF reactors_to_close' = {}
       THEN disable_torque_close
       ELSE UNCHANGED << reactors_to_distorque_close, chk_tor_close,
                         state, issued >>
    /\ UNCHANGED << impl, scheduler, running, index, state_timer,
                    finished, reactors_to_open,
                    reactors_to_distorque_open, tickVars, relayVars,
                    psVars, pumpVars, servo_goal, servos_load, chk_open,
                    chk_tor_open, direction, processed, ctlVars,
                    targetVars >>

on_servo_closed(servo_id) ==
    IF state = "WAIT_SERVO_MOTOR_CLOSE"
    THEN /\ reactors_to_close' = reactors_to_close \ {servo_id - 1}
         /\ IF reactors_to_close' = {}
            THEN disable_torque_close
            ELSE UNCHANGED << reactors_to_distorque_close, chk_tor_close,
                              state, issued >>
         /\ UNCHANGED << impl, scheduler, running, index, state_timer,
                         finished, reactors_to_open,
                         reactors_to_distorque_open, tickVars, relayVars,
                         psVars, pumpVars, servo_goal, servos_load, chk_open,
                         chk_tor_open, direction, processed, ctlVars,
                         targetVars >>
    ELSE UNCHANGED << impl, scheduler, seqVars, setVars, tickVars, relayVars,
                      psVars, pumpVars, servo_goal, servos_load, chk_open,
                      chk_tor_close, chk_tor_open, histVars, ctlVars,
                      targetVars >>

on_torque_disabled_close(servo_id) ==
    IF state = "WAIT_DISABLE_TORQUE_CLOSE"
    THEN /\ reactors_to_distorque_close' =
                reactors_to_distorque_close \ {servo_id - 1}
         /\ IF reactors_to_distorque_close' = {}
            THEN transition_done
            ELSE UNCHANGED << index, state, issued >>
         /\ UNCHANGED << impl, scheduler, running, state_timer, finished,
                         reactors_to_close, reactors_to_open,
                         reactors_to_distorque_open, tickVars, relayVars,
                         psVars, pumpVars, servo_goal, servos_pos, chk_close,
                         chk_open, chk_tor_open, direction, processed,
                         ctlVars, targetVars >>
    ELSE UNCHANGED << impl, scheduler, seqVars, setVars, tickVars, relayVars,
                      psVars, pumpVars, servo_goal, servos_pos, chk_close,
                      chk_open, chk_tor_open, histVars, ctlVars, targetVars >>

on_servo_opened(servo_id) ==
    IF state = "WAIT_SERVO_MOTOR_OPEN"
    THEN /\ reactors_to_open' = reactors_to_open \ {servo_id - 1}
         /\ IF reactors_to_open' = {}
            THEN set_gearpump_rate("WAIT_GEARPUMP_RATE_OPEN",
                                   Cardinality(scheduler.running_reactors))
            ELSE UNCHANGED << pumpVars, state, issued >>
         /\ UNCHANGED << impl, scheduler, running, index, state_timer,
                         finished, reactors_to_close,
                         reactors_to_distorque_close,
                         reactors_to_distorque_open, tickVars, relayVars,
                         psVars, servo_goal, servos_load, chk_close,
                         chk_tor_close, chk_tor_open, direction, processed,
                         ctlVars, targetVars >>
    ELSE UNCHANGED << impl, scheduler, seqVars, setVars, tickVars, relayVars,
                      psVars, pumpVars, servo_goal, servos_load, chk_close,
                      chk_tor_close, chk_tor_open, histVars, ctlVars,
                      targetVars >>

on_torque_disabled_open(servo_id) ==
    IF state = "WAIT_DISABLE_TORQUE_OPEN"
    THEN /\ reactors_to_distorque_open' =
                reactors_to_distorque_open \ {servo_id - 1}
         /\ IF reactors_to_distorque_open' = {}
            THEN set_power_supply("WAIT_POWER_SUPPLY_OPEN",
                                  Cardinality(scheduler.running_reactors))
            ELSE UNCHANGED << psVars, state, issued >>
         /\ UNCHANGED << impl, scheduler, running, index, state_timer,
                         finished, reactors_to_close, reactors_to_open,
                         reactors_to_distorque_close, tickVars, relayVars,
                         pumpVars, servo_goal, servos_pos, chk_close,
                         chk_open, chk_tor_close, direction, processed,
                         ctlVars, targetVars >>
    ELSE UNCHANGED << impl, scheduler, seqVars, setVars, tickVars, relayVars,
                      psVars, pumpVars, servo_goal, servos_pos, chk_close,
                      chk_open, chk_tor_close, histVars, ctlVars, targetVars >>

\* stop() of inter_operv2.py; state_timer exists once run() has been called.
stop_v2 ==
    /\ impl = "v2"
    /\ state # "IDLE"
    /\ stop_calls < MaxStops
    /\ stop_calls' = stop_calls + 1
    /\ state_timer' = FALSE
    /\ running' = FALSE
    /\ finish_worker
    /\ UNCHANGED << impl, scheduler, index, setVars, tickVars, relayVars,
                    psVars, pumpVars, servoVars, histVars, reset_calls,
                    start_calls, targetVars >>

(***************************************************************************)
(* Checked commands of the device workers: each scheduled check reads the  *)
(* monitor's value; on a match the chain ends and the confirmation signal  *)
(* is delivered to its slot, otherwise the command is sent again and the   *)
(* check is scheduled again (the state does not change).  Every slot of   *)
(* the sequencer tests self.state, so a confirmation delivered after the   *)
(* sequencer has FINISHED is ignored; those late passes touch only the     *)
(* device workers' own bookkeeping and are left out.                       *)
(***************************************************************************)
\* The relay and supply workers of this revision emit no confirmation
\* signal; the event-driven sequencer connects to one (interop).
relay_interop == on_relay_state_changed

ps_interop == on_voltage_set

check_relay_state ==
    /\ impl = "v2"
    /\ state # "FINISHED"
    /\ chk_relay
    /\ \E channel_states \in RelayReadings :
          /\ channel_states = relay_cmd
          /\ relay_coils' = channel_states
          /\ chk_relay' = FALSE
          /\ UNCHANGED << relay_cmd, relay_state_received >>
          /\ relay_interop

check_set_voltage ==
    /\ impl = "v2"
    /\ state # "FINISHED"
    /\ chk_ps
    /\ \E reading \in VoltageReadings :
          /\ reading = ps_cmd
          /\ voltage_set' = reading
          /\ chk_ps' = FALSE
          /\ UNCHANGED ps_cmd
          /\ ps_interop

\* (check_rotate_rate_nocheck: the faulty variant without the tolerance.)
check_rotate_rate_nocheck ==
    /\ impl = "v2"
    /\ state # "FINISHED"
    /\ chk_pump
    /\ \E reading \in RateReadings :
          /\ cur_rotate_rate' = reading
          /\ chk_pump' = FALSE
          /\ UNCHANGED pump_cmd
          /\ on_rotate_rate_set

check_rotate_rate ==
    /\ impl = "v2"
    /\ state # "FINISHED"
    /\ chk_pump
    /\ \E reading \in RateReadings :
          /\ Abs(reading - pump_cmd) < RateTolerance
          /\ cur_rotate_rate' = reading
          /\ chk_pump' = FALSE
          /\ UNCHANGED pump_cmd
          /\ on_rotate_rate_set

check_position_close(servo_id) ==
    /\ impl = "v2"
    /\ state # "FINISHED"
    /\ servo_id \in chk_close
    /\ \E reading \in PosReadings(servo_id) :
          /\ reading >= ServoCloseChecked
          /\ servos_pos' = [servos_pos EXCEPT ![servo_id] = reading]
          /\ chk_close' = chk_close \ {servo_id}
          /\ on_servo_closed(servo_id)

\* (check_position_open_nocheck: the faulty variant without the threshold.)
check_position_open_nocheck(servo_id) ==
    /\ impl = "v2"
    /\ state # "FINISHED"
    /\ servo_id \in chk_open
    /\ \E reading \in PosReadings(servo_id) :
          /\ servos_pos' = [servos_pos EXCEPT ![servo_id] = reading]
          /\ chk_open' = chk_open \ {servo_id}
          /\ on_servo_opened(servo_id)

check_position_open(servo_id) ==
    /\ impl = "v2"
    /\ state # "FINISHED"
    /\ servo_id \in chk_open
    /\ \E reading \in PosReadings(servo_id) :
          /\ reading <= ServoOpenChecked
          /\ servos_pos' = [servos_pos EXCEPT ![servo_id] = reading]
          /\ chk_open' = chk_open \ {servo_id}
          /\ on_servo_opened(servo_id)

check_torque_close(servo_id) ==
    /\ impl = "v2"
    /\ state # "FINISHED"
    /\ servo_id \in chk_tor_close
    /\ \E reading \in LoadReadings(servo_id) :
          /\ reading = 0
          /\ servos_load' = [servos_load EXCEPT ![servo_id] = reading]
          /\ chk_tor_close' = chk_tor_close \ {servo_id}
          /\ on_torque_disabled_close(servo_id)

check_torque_open(servo_id) ==
    /\ impl = "v2"
    /\ state # "FINISHED"
    /\ servo_id \in chk_tor_open
    /\ \E reading \in LoadReadings(servo_id) :
          /\ reading = 0
          /\ servos_load' = [servos_load EXCEPT ![servo_id] = reading]
          /\ chk_tor_open' = chk_tor_open \ {servo_id}
          /\ on_torque_disabled_open(servo_id)


(***************************************************************************)
(* Polling sequencer (inter_oper.py, InterOpWorker.run).  state is the     *)
(* position in run(): CHECK_TIME is the head of the while loop, a WAIT_*   *)
(* state is the wait loop of that name, FINISHED is after finished.emit(). *)
(* One step of a wait loop is one pass: the monitors may have refreshed    *)
(* the value during the sleep, the pass reads it, and when the exit        *)
(* condition holds the code that follows the loop issues the next command. *)
(***************************************************************************)
run_v1 ==
    /\ impl = "v1"
    /\ state = "IDLE"
    /\ index' = 0
    /\ state' = "CHECK_TIME"
    /\ start_calls' = start_calls + 1
    /\ UNCHANGED << impl, scheduler, running, state_timer, finished, setVars,
                    tickVars, relayVars, psVars, pumpVars, servoVars,
                    histVars, stop_calls, reset_calls, targetVars >>

loop_v1 ==
    /\ impl = "v1"
    /\ state = "CHECK_TIME"
    /\ IF ~running \/ index >= MaxTicks
       THEN /\ running' = FALSE
            /\ finish_worker
            /\ UNCHANGED << impl, scheduler, index, state_timer, setVars,
                            tickVars, relayVars, psVars, pumpVars, servoVars,
                            histVars, ctlVars, targetVars >>
       ELSE \E power \in PowerSamples :
              \E E \in RemovalChoices(scheduler, get_operational_reactors(power)) :
                 Tick(power, E)

\* (wait_relay_close_v1_nowait: the faulty variant that does not wait.)
wait_relay_close_v1_nowait ==
    /\ impl = "v1"
    /\ state = "WAIT_RELAY_STATE_CLOSE"
    /\ \E reading \in RelayReadings :
          /\ relay_coils' = reading
          /\ relay_state_received' = reading
    /\ set_power_supply("WAIT_POWER_SUPPLY_CLOSE", num_active_reactors_new)
    /\ UNCHANGED << impl, scheduler, running, index, state_timer, finished,
                    setVars, tickVars, relay_cmd, chk_relay, pumpVars,
                    servoVars, direction, processed, ctlVars, targetVars >>

wait_relay_close_v1 ==
    /\ impl = "v1"
    /\ state = "WAIT_RELAY_STATE_CLOSE"
    /\ \E reading \in RelayReadings :
          /\ reading = scheduler.relays_to_oc
          /\ relay_coils' = reading
          /\ relay_state_received' = reading
    /\ set_power_supply("WAIT_POWER_SUPPLY_CLOSE", num_active_reactors_new)
    /\ UNCHANGED << impl, scheduler, running, index, state_timer, finished,
                    setVars, tickVars, relay_cmd, chk_relay, pumpVars,
                    servoVars, direction, processed, ctlVars, targetVars >>

wait_ps_close_v1 ==
    /\ impl = "v1"
    /\ state = "WAIT_POWER_SUPPLY_CLOSE"
    /\ \E reading \in VoltageReadings :
          /\ reading = ps_cmd
          /\ voltage_set' = reading
    /\ set_gearpump_rate("WAIT_GEARPUMP_RATE_CLOSE", num_active_reactors_new)
    /\ UNCHANGED << impl, scheduler, running, index, state_timer, finished,
                    setVars, tickVars, relayVars, ps_cmd, chk_ps, servoVars,
                    direction, processed, ctlVars, targetVars >>

wait_pump_close_v1 ==
    /\ impl = "v1"
    /\ state = "WAIT_GEARPUMP_RATE_CLOSE"
    /\ \E reading \in RateReadings :
          /\ Abs(reading - pump_cmd) < RateTolerance
          /\ cur_rotate_rate' = reading
    /\ close_servo_motor
    /\ reactors_to_distorque_close' = IdleReactors
    /\ UNCHANGED << impl, scheduler, running, index, state_timer, finished,
                    reactors_to_open, reactors_to_distorque_open, tickVars,
                    relayVars, psVars, pump_cmd, chk_pump, servos_pos,
                    chk_open, chk_tor_close, chk_tor_open, direction,
                    processed, ctlVars, targetVars >>

\* The servos a pass of a servo wait may find moved since the last pass:
\* none, or one more servo of the pending set.
MovedChoices(pending) == { {} } \cup { {r + 1} : r \in pending }

wait_servo_close_v1 ==
    /\ impl = "v1"
    /\ state = "WAIT_SERVO_MOTOR_CLOSE"
    /\ \E moved \in MovedChoices(reactors_to_close) :
          /\ servos_pos' = [ s \in Servos |->
                               IF s \in moved THEN servo_goal[s] ELSE servos_pos[s] ]
          /\ reactors_to_close' =
                { id_r \in reactors_to_close : servos_pos'[id_r + 1] < ServoClosePolled }
          /\ reactors_to_close' # reactors_to_close
    /\ IF reactors_to_close' = {}
       THEN /\ state' = "WAIT_DISABLE_TORQUE_CLOSE"
            /\ issued' = Append(issued, "torque")
       ELSE UNCHANGED << state, issued >>
    /\ UNCHANGED << impl, scheduler, running, index, state_timer, finished,
                    reactors_to_open, reactors_to_distorque_close,
                    reactors_to_distorque_open, tickVars, relayVars, psVars,
                    pumpVars, servo_goal, servos_load, chk_close, chk_open,
                    chk_tor_close, chk_tor_open, direction, processed,
                    ctlVars, targetVars >>

wait_torque_close_v1 ==
    /\ impl = "v1"
    /\ state = "WAIT_DISABLE_TORQUE_CLOSE"
    /\ \E moved \in MovedChoices(reactors_to_distorque_close) :
          /\ servos_load' = [ s \in Servos |->
                                IF s \in moved THEN 0 ELSE servos_load[s] ]
          /\ reactors_to_distorque_close' =
                { id_r \in reactors_to_distorque_close : servos_load'[id_r + 1] # 0 }
          /\ reactors_to_distorque_close' # reactors_to_distorque_close
    /\ IF reactors_to_distorque_close' = {}
       THEN transition_done
       ELSE UNCHANGED << index, state, issued >>
    /\ UNCHANGED << impl, scheduler, running, state_timer, finished,
                    reactors_to_close, reactors_to_open,
                    reactors_to_distorque_open, tickVars, relayVars, psVars,
                    pumpVars, servo_goal, servos_pos, chk_close, chk_open,
                    chk_tor_close, chk_tor_open, direction, processed,
                    ctlVars, targetVars >>

wait_servo_open_v1 ==
    /\ impl = "v1"
    /\ state = "WAIT_SERVO_MOTOR_OPEN"
    /\ \E moved \in MovedChoices(reactors_to_open) :
          /\ servos_pos' = [ s \in Servos |->
                               IF s \in moved THEN servo_goal[s] ELSE servos_pos[s] ]
          /\ reactors_to_open' =
                { id_r \in reactors_to_open : servos_pos'[id_r + 1] > ServoOpenChecked }
          /\ reactors_to_open' # reactors_to_open
    /\ IF reactors_to_open' = {}
       THEN set_gearpump_rate("WAIT_GEARPUMP_RATE_OPEN", num_active_reactors_new)
       ELSE UNCHANGED << pumpVars, state, issued >>
    /\ UNCHANGED << impl, scheduler, running, index, state_timer, finished,
                    reactors_to_close, reactors_to_distorque_close,
                    reactors_to_distorque_open, tickVars, relayVars, psVars,
                    servo_goal, servos_load, chk_close, chk_open,
                    chk_tor_close, chk_tor_open, direction, processed,
                    ctlVars, targetVars >>

wait_pump_open_v1 ==
    /\ impl = "v1"
    /\ state = "WAIT_GEARPUMP_RATE_OPEN"
    /\ \E reading \in RateReadings :
          /\ Abs(reading - pump_cmd) < RateTolerance
          /\ cur_rotate_rate' = reading
    /\ state' = "WAIT_DISABLE_TORQUE_OPEN"
    /\ issued' = Append(issued, "torque")
    /\ UNCHANGED << impl, scheduler, running, index, state_timer, finished,
                    setVars, tickVars, relayVars, psVars, pump_cmd, chk_pump,
                    servoVars, direction, processed, ctlVars, targetVars >>

wait_torque_open_v1 ==
    /\ impl = "v1"
    /\ state = "WAIT_DISABLE_TORQUE_OPEN"
    /\ \E moved \in MovedChoices(reactors_to_distorque_open) :
          /\ servos_load' = [ s \in Servos |->
                                IF s \in moved THEN 0 ELSE servos_load[s] ]
          /\ reactors_to_distorque_open' =
                { id_r \in reactors_to_distorque_open : servos_load'[id_r + 1] # 0 }
          /\ reactors_to_distorque_open' # reactors_to_distorque_open
    /\ IF reactors_to_distorque_open' = {}
       THEN set_power_supply("WAIT_POWER_SUPPLY_OPEN", num_active_reactors_new)
       ELSE UNCHANGED << psVars, state, issued >>
    /\ UNCHANGED << impl, scheduler, running, index, state_timer, finished,
                    reactors_to_close, reactors_to_open,
                    reactors_to_distorque_close, tickVars, relayVars,
                    pumpVars, servo_goal, servos_pos, chk_close, chk_open,
                    chk_tor_close, chk_tor_open, direction, processed,
                    ctlVars, targetVars >>

\* (wait_ps_open_v1_nowait: the faulty variant that does not wait.)
wait_ps_open_v1_nowait ==
    /\ impl = "v1"
    /\ state = "WAIT_POWER_SUPPLY_OPEN"
    /\ \E reading \in VoltageReadings :
          voltage_set' = reading
    /\ set_relay_state("WAIT_RELAY_STATE_OPEN", scheduler.relays_to_oc)
    /\ issued' = Append(issued, "relay")
    /\ UNCHANGED << impl, scheduler, running, index, state_timer, finished,
                    setVars, tickVars, ps_cmd, chk_ps, pumpVars, servoVars,
                    direction, processed, ctlVars, targetVars >>

wait_ps_open_v1 ==
    /\ impl = "v1"
    /\ state = "WAIT_POWER_SUPPLY_OPEN"
    /\ \E reading \in VoltageReadings :
          /\ reading = ps_cmd
          /\ voltage_set' = reading
    /\ set_relay_state("WAIT_RELAY_STATE_OPEN", scheduler.relays_to_oc)
    /\ issued' = Append(issued, "relay")
    /\ UNCHANGED << impl, scheduler, running, index, state_timer, finished,
                    setVars, tickVars, ps_cmd, chk_ps, pumpVars, servoVars,
                    direction, processed, ctlVars, targetVars >>

wait_relay_open_v1 ==
    /\ impl = "v1"
    /\ state = "WAIT_RELAY_STATE_OPEN"
    /\ \E reading \in RelayReadings :
          /\ reading = scheduler.relays_to_oc
          /\ relay_coils' = reading
          /\ relay_state_received' = reading
    /\ transition_done
    /\ UNCHANGED << impl, scheduler, running, state_timer, finished, setVars,
                    tickVars, relay_cmd, chk_relay, psVars, pumpVars,
                    servoVars, direction, processed, ctlVars, targetVars >>

\* stop() only clears the flag; on a cleared flag it changes nothing.
stop_v1 ==
    /\ impl = "v1"
    /\ running
    /\ stop_calls < MaxStops
    /\ stop_calls' = stop_calls + 1
    /\ running' = FALSE
    /\ UNCHANGED << impl, scheduler, index, state, state_timer, finished,
                    setVars, tickVars, relayVars, psVars, pumpVars,
                    servoVars, histVars, reset_calls, start_calls,
                    targetVars >>

(***************************************************************************)
(* Specification of a run: ticks, transitions, device confirmations and    *)
(* the operator's stop().                                                  *)
(***************************************************************************)
SequencerV2 ==
    \/ run
    \/ check_time_state
    \/ on_timer_timeout
    \/ process_interval_state
    \/ check_relay_state
    \/ check_set_voltage
    \/ check_rotate_rate
    \/ \E servo_id \in Servos : check_position_close(servo_id)
    \/ \E servo_id \in Servos : check_position_open(servo_id)
    \/ \E servo_id \in Servos : check_torque_close(servo_id)
    \/ \E servo_id \in Servos : check_torque_open(servo_id)

SequencerV1 ==
    \/ run_v1
    \/ loop_v1
    \/ wait_relay_close_v1
    \/ wait_ps_close_v1
    \/ wait_pump_close_v1
    \/ wait_servo_close_v1
    \/ wait_torque_close_v1
    \/ wait_servo_open_v1
    \/ wait_pump_open_v1
    \/ wait_torque_open_v1
    \/ wait_ps_open_v1
    \/ wait_relay_open_v1

Next ==
    \/ SequencerV2
    \/ SequencerV1
    \/ stop_v2
    \/ stop_v1

Spec == Init /\ [][Next]_vars

(***************************************************************************)
(* Operator actions on the polling worker beyond one run: reset() from the *)
(* GUI thread at any moment, and run() started again on a finished worker. *)
(***************************************************************************)
reset ==
    /\ impl = "v1"
    /\ reset_calls < MaxResets
    /\ reset_calls' = reset_calls + 1
    /\ running' = TRUE
    /\ scheduler' = ReactorScheduler(NumReactors, Interval, MaxPower)
    /\ UNCHANGED << impl, index, state, state_timer, finished, setVars,
                    tickVars, relayVars, psVars, pumpVars, servoVars,
                    histVars, stop_calls, start_calls, targetVars >>

rerun_v1 ==
    /\ impl = "v1"
    /\ state = "FINISHED"
    /\ start_calls < MaxStarts
    /\ start_calls' = start_calls + 1
    /\ index' = 0
    /\ state' = "CHECK_TIME"
    /\ processed' = << >>
    /\ UNCHANGED << impl, scheduler, running, state_timer, finished, setVars,
                    tickVars, relayVars, psVars, pumpVars, servoVars,
                    issued, direction, stop_calls, reset_calls, targetVars >>

NextOp ==
    \/ Next
    \/ reset
    \/ rerun_v1

SpecOp == Init /\ [][NextOp]_vars

(***************************************************************************)
(* The sequencer's own steps are taken when enabled (its thread and its    *)
(* timer run); nothing obliges a device to confirm or an operator to act.  *)
(***************************************************************************)
FairSpec ==
    /\ Spec
    /\ WF_vars(run)
    /\ WF_vars(check_time_state)
    /\ WF_vars(on_timer_timeout)
    /\ WF_vars(process_interval_state)
    /\ WF_vars(run_v1)
    /\ WF_vars(loop_v1)

(***************************************************************************)
(* get_operational_reactors on its own: the function applied to one power  *)
(* percentage after another, the previous input and result being kept.     *)
(***************************************************************************)
apply_get_operational_reactors ==
    \E power \in PowerDomain :
       /\ prev_power' = available_power
       /\ prev_target' = num_active_reactors_new
       /\ available_power' = power
       /\ num_active_reactors_new' = get_operational_reactors(power)
       /\ UNCHANGED << deviceVars, frameVars, impl, scheduler, seqVars, setVars, relayVars, psVars,
                       pumpVars, servoVars, histVars, ctlVars, schedVars,
                       searchVars >>

SpecTarget == Init /\ [][apply_get_operational_reactors]_vars

(***************************************************************************)
(* Efficiency search: the computation of one trial.                        *)
(***************************************************************************)
\* power_percentages = (self.solar_data / max_power) * 100, in hundredths of
\* a percent; in a pandas Series 0 / 0 is NaN and a negative sample over 0
\* is -inf (any negative value here).
power_percentages(x) ==
    [ i \in 1 .. Len(solar_data) |->
        IF self_max_power = 0
        THEN IF solar_data[i] = 0 THEN [nan |-> TRUE, value |-> 0]
             ELSE [nan |-> FALSE, value |-> 0 - 1]
        ELSE [nan |-> FALSE,
              value |-> (solar_data[i] * x * 100) \div self_max_power] ]

\* get_operational_reactors on a Series element: NaN fails every comparison
\* of the chain and falls to the final else.
trial_target(p) == IF p.nan THEN 10 ELSE get_operational_reactors(p.value)

\* scheduler = ReactorScheduler(10, interval_minutes, max_power)
\* (trial_scheduler_reused: the faulty variant that keeps the last trial's
\* scheduler.)
trial_scheduler_reused(x) ==
    [ trial EXCEPT !.max_power = (self_max_power * XScale) \div x ]

trial_scheduler(x) ==
    ReactorScheduler(NumReactors, Interval, (self_max_power * XScale) \div x)

\* scheduler.schedule_reactors(power_percentages): the schedulers the loop
\* may end with, from the set S of schedulers it may have reached.
RECURSIVE schedule_all(_, _)
schedule_all(S, powers) ==
    IF powers = << >> THEN S
    ELSE LET num_active_reactors == trial_target(Head(powers))
         IN  schedule_all(
                UNION { { update_reactor_minutes(s, num_active_reactors, E) :
                            E \in RemovalChoices(s, num_active_reactors) } : s \in S },
                Tail(powers))

\* total_solar_power_generated = self.solar_data.sum() * (interval_minutes / 60)
total_solar_power_generated == SeqSum(solar_data) * Interval * (XScale \div 10)

(***************************************************************************)
(* The scheduler on its own: constructed, then updated with one power      *)
(* percentage after another by either of its two entry points.             *)
(***************************************************************************)
\* Power percentages offered to the scheduler after one construction: a
\* trace over 5, 15, 25, 95 % or a trace over 5, 55, 65, 75 %.
PowerFamilies == { {500, 1500, 2500, 9500}, {500, 5500, 6500, 7500} }
SchedPowers == { power \in UNION PowerFamilies :
                   \E F \in PowerFamilies :
                      power \in F /\ \A i \in 1 .. Len(trace) : trace[i] \in F }

\* Intervals a scheduler is constructed with: the GUI's and a 20-minute one.
SchedIntervals == {20, Interval}

construct ==
    \E interval \in SchedIntervals :
       /\ scheduler' = ReactorScheduler(NumReactors, interval, MaxPower)
       /\ scheduler' # scheduler
       /\ prev_scheduler' = scheduler'
       /\ last_target' = 0 - 1
       /\ trace' = << >>
       /\ UNCHANGED << deviceVars, frameVars, impl, seqVars, setVars, tickVars, relayVars, psVars,
                       pumpVars, servoVars, histVars, ctlVars, prev_power,
                       prev_target, searchVars >>

schedule_reactors_v2 ==
    /\ Len(trace) < MaxUpdates
    /\ \E available_power_1 \in SchedPowers :
          LET num_active_reactors == get_operational_reactors(available_power_1)
          IN  \E E \in RemovalChoices(scheduler, num_active_reactors) :
                 /\ scheduler' = update_reactor_minutes_v2(scheduler, num_active_reactors, E)
                 /\ prev_scheduler' = scheduler
                 /\ last_target' = num_active_reactors
                 /\ trace' = Append(trace, available_power_1)
    /\ UNCHANGED << deviceVars, frameVars, impl, seqVars, setVars, tickVars, relayVars, psVars,
                    pumpVars, servoVars, histVars, ctlVars, prev_power,
                    prev_target, searchVars >>

schedule_reactors ==
    /\ Len(trace) < MaxUpdates
    /\ \E available_power_1 \in SchedPowers :
          LET num_active_reactors == get_operational_reactors(available_power_1)
          IN  \E E \in RemovalChoices(scheduler, num_active_reactors) :
                 /\ scheduler' = update_reactor_minutes(scheduler, num_active_reactors, E)
                 /\ prev_scheduler' = scheduler
                 /\ last_target' = num_active_reactors
                 /\ trace' = Append(trace, available_power_1)
    /\ UNCHANGED << deviceVars, frameVars, impl, seqVars, setVars, tickVars, relayVars, psVars,
                    pumpVars, servoVars, histVars, ctlVars, prev_power,
                    prev_target, searchVars >>

NextSched ==
    \/ construct
    \/ schedule_reactors_v2
    \/ schedule_reactors

SpecSched == Init /\ [][NextSched]_vars

(***************************************************************************)
(* Efficiency search: load_solar_data, then find_best_x one candidate at a *)
(* time, each iteration being one calculate_efficiency_for_x; meanwhile    *)
(* the live scheduler may have been updated, and calculate_efficiency may  *)
(* be called on the scheduler of the last trial.                           *)
(***************************************************************************)
\* Resampled traces (kW): all zero; generation cancelled by night-time
\* draw; and traces whose best candidate is the first, a later one, or tied.
SolarTraces ==
    { << 0, 0 >>, << 100, 0 - 100 >>, << 100 >>, << 100, 90 >>,
      << 7, 47, 100 >>, << 19, 19, 19, 19, 19, 100 >> }

\* Candidate lists, ascending: 1.0, 1.25, 1.5, 2.0 and 1.25, 1.5.
XLists == { << 100, 125, 150, 200 >>, << 125, 150 >> }

load_solar_data ==
    /\ solar_data = << >>
    /\ \E data \in SolarTraces :
          /\ solar_data' = data
          /\ self_max_power' = SeqMax(data)
    /\ UNCHANGED << deviceVars, frameVars, impl, scheduler, seqVars, setVars, tickVars, relayVars,
                    psVars, pumpVars, servoVars, histVars, ctlVars,
                    prev_power, prev_target, schedVars, x_values, x_index,
                    best_x, best_efficiency, trial, efficiency,
                    generated_arg, results >>

find_best_x ==
    /\ solar_data # << >>
    /\ x_index = 0
    /\ Len(results) < MaxSearches
    /\ x_values' \in XLists
    /\ x_index' = 1
    /\ best_x' = NoX
    /\ best_efficiency' = Zero
    /\ UNCHANGED << deviceVars, frameVars, impl, scheduler, seqVars, setVars, tickVars, relayVars,
                    psVars, pumpVars, servoVars, histVars, ctlVars,
                    prev_power, prev_target, schedVars, solar_data,
                    self_max_power, trial, efficiency, generated_arg,
                    results >>

\* One iteration of the loop of find_best_x.
\* (calculate_efficiency_for_x_live: the faulty variant that runs the trial
\* on the live scheduler.)
calculate_efficiency_for_x_live ==
    /\ x_index >= 1
    /\ x_index <= Len(x_values)
    /\ LET x == x_values[x_index]
       IN  \E s \in schedule_all({[scheduler EXCEPT !.max_power = (self_max_power * XScale) \div x]},
                                     power_percentages(x)) :
              /\ scheduler' = s
              /\ trial' = s
              /\ generated_arg' = total_solar_power_generated
              /\ efficiency' = calculate_efficiency(s, total_solar_power_generated)
              /\ IF GreaterThan(efficiency', best_efficiency)
                 THEN best_efficiency' = efficiency' /\ best_x' = x
                 ELSE UNCHANGED << best_efficiency, best_x >>
    /\ x_index' = x_index + 1
    /\ UNCHANGED << deviceVars, frameVars, impl, seqVars, setVars, tickVars, relayVars,
                    psVars, pumpVars, servoVars, histVars, ctlVars,
                    prev_power, prev_target, schedVars, solar_data,
                    self_max_power, x_values, results >>

calculate_efficiency_for_x ==
    /\ x_index >= 1
    /\ x_index <= Len(x_values)
    /\ LET x == x_values[x_index]
       IN  \E s \in schedule_all({trial_scheduler(x)}, power_percentages(x)) :
              /\ trial' = s
              /\ generated_arg' = total_solar_power_generated
              /\ efficiency' = calculate_efficiency(s, total_solar_power_generated)
              /\ IF GreaterThan(efficiency', best_efficiency)
                 THEN best_efficiency' = efficiency' /\ best_x' = x
                 ELSE UNCHANGED << best_efficiency, best_x >>
    /\ x_index' = x_index + 1
    /\ UNCHANGED << deviceVars, frameVars, impl, scheduler, seqVars, setVars, tickVars, relayVars,
                    psVars, pumpVars, servoVars, histVars, ctlVars,
                    prev_power, prev_target, schedVars, solar_data,
                    self_max_power, x_values, results >>

find_best_x_return ==
    /\ x_index = Len(x_values) + 1
    /\ results' = Append(results, [x_values |-> x_values, best_x |-> best_x,
                                   best_efficiency |-> best_efficiency])
    /\ x_index' = 0
    /\ UNCHANGED << deviceVars, frameVars, impl, scheduler, seqVars, setVars, tickVars, relayVars,
                    psVars, pumpVars, servoVars, histVars, ctlVars,
                    prev_power, prev_target, schedVars, solar_data,
                    self_max_power, x_values, best_x, best_efficiency,
                    trial, efficiency, generated_arg >>

\* scheduler.calculate_efficiency(g) called on the last trial's scheduler.
calculate_efficiency_call ==
    /\ x_index = 0
    /\ results # << >>
    /\ \E total_solar_power \in {0, total_solar_power_generated} :
          /\ generated_arg' = total_solar_power
          /\ efficiency' = calculate_efficiency(trial, total_solar_power)
    /\ UNCHANGED << deviceVars, frameVars, impl, scheduler, seqVars, setVars, tickVars, relayVars,
                    psVars, pumpVars, servoVars, histVars, ctlVars,
                    prev_power, prev_target, schedVars, solar_data,
                    self_max_power, x_values, x_index, best_x,
                    best_efficiency, trial, results >>

\* One update of the live scheduler.
live_update == schedule_reactors_v2 /\ trace = << >>

NextSearch ==
    \/ load_solar_data
    \/ find_best_x
    \/ calculate_efficiency_for_x
    \/ find_best_x_return
    \/ calculate_efficiency_call
    \/ live_update

SpecSearch == Init /\ [][NextSearch]_vars

(***************************************************************************)
(* Modbus RTU frames of the gear pump client.  A frame is a sequence of    *)
(* bytes (0 .. 255); struct.pack is modelled by what it writes.            *)
(***************************************************************************)
CrcSeed == 65535     \* 0xFFFF
CrcPoly == 40961     \* 0xA001

\* The element of a one-element set; the steps of the CRC are chained
\* through bound variables, which hold values.
Only(S) == CHOOSE v \in S : TRUE

RECURSIVE BitXor(_, _)
BitXor(a, b) ==
    IF a = 0 THEN b
    ELSE IF b = 0 THEN a
    ELSE ((a + b) % 2) + 2 * Only({ BitXor(x, y) : x \in {a \div 2}, y \in {b \div 2} })

\* One pass of the inner loop of _calculate_crc.
crc_shift(crc) ==
    IF crc % 2 = 1 THEN BitXor(crc \div 2, CrcPoly) ELSE crc \div 2

RECURSIVE crc_shifts(_, _)
crc_shifts(crc, n) ==
    IF n = 0 THEN crc
    ELSE Only({ crc_shifts(c, n - 1) : c \in {crc_shift(crc)} })

RECURSIVE crc_bytes(_, _)
crc_bytes(crc, data) ==
    IF data = << >> THEN crc
    ELSE Only({ crc_bytes(c, Tail(data)) :
                    c \in { crc_shifts(x, 8) : x \in {BitXor(crc, Head(data))} } })

_calculate_crc(data) == crc_bytes(CrcSeed, data)

\* struct.pack('>H', v): high byte first.
pack_be_H(v) == << v \div 256, v % 256 >>

\* struct.pack('<H', v): low byte first.
\* (pack_le_H_swapped: the faulty variant that writes the high byte first.)
pack_le_H_swapped(v) == << v \div 256, v % 256 >>

pack_le_H(v) == << v % 256, v \div 256 >>

\* struct.unpack('>H', b) and struct.unpack('<H', b)
unpack_be_H(b) == b[1] * 256 + b[2]
unpack_le_H(b) == b[1] + 256 * b[2]

\* struct.pack('>BBHH', slave, function_code, a, b) followed by the CRC.
request_BBHH(slave, function_code, a, b) ==
    LET req == << slave, function_code >> \o pack_be_H(a) \o pack_be_H(b)
    IN  req \o pack_le_H(_calculate_crc(req))

_construct_read_coils_request(slave, coil_address, coil_count) ==
    request_BBHH(slave, 1, coil_address, coil_count)

_construct_read_request(slave, register_address, register_count) ==
    request_BBHH(slave, 3, register_address, register_count)

_construct_write_request(slave, register_address, value) ==
    request_BBHH(slave, 6, register_address, value)

RECURSIVE pack_values(_)
pack_values(values) ==
    IF values = << >> THEN << >>
    ELSE pack_be_H(Head(values)) \o pack_values(Tail(values))

_construct_write_multiple_request(slave, start_address, values) ==
    LET register_count == Len(values)
        byte_count == register_count * 2
        req == << slave, 16 >> \o pack_be_H(start_address)
                  \o pack_be_H(register_count) \o << byte_count >>
                  \o pack_values(values)
    IN  req \o pack_le_H(_calculate_crc(req))

\* _parse_write_response(response): the pair returned, or the error raised.
_parse_write_response(resp) ==
    IF Len(resp) < 8
    THEN [raised |-> "ModbusError"]
    ELSE IF resp[2] = 134
    THEN [raised |-> "ModbusExceptionError", exception_code |-> resp[3]]
    ELSE IF _calculate_crc(SubSeq(resp, 1, Len(resp) - 2))
               # unpack_le_H(SubSeq(resp, Len(resp) - 1, Len(resp)))
    THEN [raised |-> "CRCMismatchError"]
    ELSE [raised |-> "nothing",
          register_address |-> unpack_be_H(SubSeq(resp, 3, 4)),
          written_value |-> unpack_be_H(SubSeq(resp, 5, 6))]

\* Inputs: slave ids, 16-bit addresses and counts or values, value lists.
SlaveIds == { 1, 2 }
Addresses == { 0, 1, 258, 65535 }
Words == { 0, 1, 3, 258, 65535 }
ValueLists == { << >>, << 1 >>, << 258, 65535 >>, << 0, 1, 3 >> }

GearPumpController ==
    /\ request = << >>
    /\ slave_id' \in SlaveIds \ { slave_id }
    /\ UNCHANGED << nonFrameVars, request, request_args, response, parsed >>

constructed(function_code, address, count, values, frame) ==
    /\ request' = frame
    /\ request_args' = [slave_id |-> slave_id, function_code |-> function_code,
                        address |-> address, count |-> count,
                        values |-> values]
    /\ response' = << >>
    /\ parsed' = None
    /\ UNCHANGED << nonFrameVars, slave_id >>

apply_construct_read_coils_request ==
    \E a \in Addresses, n \in Words :
        constructed(1, a, n, << >>, _construct_read_coils_request(slave_id, a, n))

apply_construct_read_request ==
    \E a \in Addresses, n \in Words :
        constructed(3, a, n, << >>, _construct_read_request(slave_id, a, n))

apply_construct_write_request ==
    \E a \in Addresses, v \in Words :
        constructed(6, a, v, << >>, _construct_write_request(slave_id, a, v))

apply_construct_write_multiple_request ==
    \E a \in Addresses, values \in ValueLists :
        constructed(16, a, Len(values), values,
                    _construct_write_multiple_request(slave_id, a, values))

\* The device echoes a write-single-register request; the echo is parsed.
apply_parse_write_response ==
    /\ request # << >>
    /\ request_args.function_code = 6
    /\ parsed = None
    /\ response' = request
    /\ parsed' = _parse_write_response(request)
    /\ UNCHANGED << nonFrameVars, slave_id, request, request_args >>

NextFrame ==
    \/ GearPumpController
    \/ apply_construct_read_coils_request
    \/ apply_construct_read_request
    \/ apply_construct_write_request
    \/ apply_construct_write_multiple_request
    \/ apply_parse_write_response

SpecFrame == Init /\ [][NextFrame]_vars

(***************************************************************************)
(* Responses of the gear pump client: each call constructs its request,    *)
(* reads at most the expected number of bytes and hands them to its        *)
(* parser.  The device answers with a well-formed response, with an        *)
(* exception response, or not at all; a bit of an accepted response may    *)
(* be flipped on the line before it is parsed.                             *)
(***************************************************************************)
\* ser.read(size): at most size of the bytes the device sent.
ser_read(sent, size) == SubSeq(sent, 1, IF Len(sent) < size THEN Len(sent) ELSE size)

crc_mismatch(resp) ==
    _calculate_crc(SubSeq(resp, 1, Len(resp) - 2))
        # unpack_le_H(SubSeq(resp, Len(resp) - 1, Len(resp)))

\* _parse_coils_response(response, coil_count)
_parse_coils_response(resp, coil_count) ==
    LET byte_count_expected == (coil_count + 7) \div 8
        expected_length == 3 + byte_count_expected + 2
    IN  IF Len(resp) < expected_length
        THEN [raised |-> "ModbusError"]
        ELSE IF resp[2] = 129
        THEN [raised |-> "ModbusExceptionError", exception_code |-> resp[3]]
        ELSE IF resp[3] # byte_count_expected
        THEN [raised |-> "ModbusError"]
        ELSE IF crc_mismatch(resp)
        THEN [raised |-> "CRCMismatchError"]
        ELSE [raised |-> "nothing",
              coils |-> [ i \in 1 .. coil_count |->
                            (resp[4 + ((i - 1) \div 8)] \div (2 ^ ((i - 1) % 8))) % 2 ]]

\* _parse_read_response(response, register_count)
_parse_read_response(resp, register_count) ==
    LET expected_length == 5 + 2 * register_count
    IN  IF Len(resp) < expected_length
        THEN [raised |-> "ModbusError"]
        ELSE IF resp[2] = 131
        THEN [raised |-> "ModbusExceptionError", exception_code |-> resp[3]]
        ELSE IF resp[3] # 2 * register_count
        THEN [raised |-> "ModbusError"]
        ELSE IF crc_mismatch(resp)
        THEN [raised |-> "CRCMismatchError"]
        ELSE [raised |-> "nothing",
              unsigned_data |-> [ i \in 1 .. register_count |->
                                    unpack_be_H(SubSeq(resp, 2 + 2 * i, 3 + 2 * i)) ]]

\* _parse_write_multiple_response(response)
_parse_write_multiple_response(resp) ==
    IF Len(resp) < 8
    THEN [raised |-> "ModbusError"]
    ELSE IF resp[2] = 144
    THEN [raised |-> "ModbusExceptionError", exception_code |-> resp[3]]
    ELSE IF crc_mismatch(resp)
    THEN [raised |-> "CRCMismatchError"]
    ELSE [raised |-> "nothing",
          start_address |-> unpack_be_H(SubSeq(resp, 3, 4)),
          register_count |-> unpack_be_H(SubSeq(resp, 5, 6))]

\* The parser of the call that sent a request with the given function code.
parser_of(function_code, count, resp) ==
    IF function_code = 1 THEN _parse_coils_response(resp, count)
    ELSE IF function_code = 3 THEN _parse_read_response(resp, count)
    ELSE IF function_code = 6 THEN _parse_write_response(resp)
    ELSE _parse_write_multiple_response(resp)

\* The bytes read(size) waits for in each call.
read_size(function_code, count) ==
    IF function_code = 1 THEN 3 + ((count + 7) \div 8) + 2
    ELSE IF function_code = 3 THEN 5 + 2 * count
    ELSE 8

with_crc(bytes) == bytes \o pack_le_H(_calculate_crc(bytes))

\* What the device may send back: nothing, an exception response, or the
\* well-formed response to the request (data is what it reports).
exception_response(slave, function_code, exception_code) ==
    with_crc(<< slave, function_code + 128, exception_code >>)

ExceptionCodes == { 2 }
CoilData == [ c \in { 1, 9 } |-> IF c = 1 THEN { << 0 >>, << 1 >> }
                                 ELSE { << 0, 0 >>, << 165, 1 >> } ]
RegisterData == [ c \in { 0, 1, 2 } |-> IF c = 0 THEN { }
                                       ELSE IF c = 1 THEN { << 0 >>, << 1340 >> }
                                       ELSE { << 258, 65535 >> } ]

device_sends(a, answers) ==
    { << >> }
      \cup { exception_response(a.slave_id, a.function_code, e) : e \in ExceptionCodes }
      \cup answers

\* One call of the client: request, response read, parse.
transaction(function_code, address, count, values, frame, answers) ==
    /\ request' = frame
    /\ request_args' = [slave_id |-> slave_id, function_code |-> function_code,
                        address |-> address, count |-> count,
                        values |-> values]
    /\ \E sent \in device_sends(request_args', answers) :
          /\ response' = ser_read(sent, read_size(function_code, count))
          /\ parsed' = parser_of(function_code, count, response')
    /\ UNCHANGED << nonFrameVars, slave_id >>

read_coils ==
    \E coil_count \in { 1, 9 } :
        transaction(1, 0, coil_count, << >>,
                    _construct_read_coils_request(slave_id, 0, coil_count),
                    { with_crc(<< slave_id, 1, (coil_count + 7) \div 8 >> \o d) :
                          d \in CoilData[coil_count] })

read_register ==
    \E register_count \in { 0, 1, 2 } :
        transaction(3, 258, register_count, << >>,
                    _construct_read_request(slave_id, 258, register_count),
                    { with_crc(<< slave_id, 3, 2 * register_count >> \o pack_values(d)) :
                          d \in RegisterData[register_count] })

write_register ==
    \E w \in { << 1, 3 >>, << 258, 65535 >> } :
        transaction(6, w[1], w[2], << >>,
                    _construct_write_request(slave_id, w[1], w[2]),
                    { _construct_write_request(slave_id, w[1], w[2]) })

write_registers ==
    \E values \in { << 1 >>, << 258, 65535 >> } :
        transaction(16, 1, Len(values), values,
                    _construct_write_multiple_request(slave_id, 1, values),
                    { with_crc(<< slave_id, 16 >> \o pack_be_H(1)
                                   \o pack_be_H(Len(values))) })

\* One bit of the response, bit b of byte i, is the other way round.
flip_bit(resp, i, b) ==
    [ resp EXCEPT ![i] = IF (@ \div (2 ^ b)) % 2 = 1 THEN @ - 2 ^ b ELSE @ + 2 ^ b ]

OneBitApart(r1, r2) ==
    /\ Len(r1) = Len(r2)
    /\ \E i \in 1 .. Len(r1), b \in 0 .. 7 : r2 = flip_bit(r1, i, b)

\* The parser of the last call applied to an accepted response with one
\* bit flipped.
apply_parse_flipped ==
    /\ parsed # None
    /\ parsed.raised = "nothing"
    /\ \E i \in 1 .. Len(response), b \in 0 .. 7 :
          /\ response' = flip_bit(response, i, b)
          /\ parsed' = parser_of(request_args.function_code, request_args.count,
                                 response')
    /\ UNCHANGED << nonFrameVars, slave_id, request, request_args >>

NextResponse ==
    \/ read_coils
    \/ read_register
    \/ write_register
    \/ write_registers
    \/ apply_parse_flipped

SpecResponse == Init /\ [][NextResponse]_vars

(***************************************************************************)
(* The serial line of a device client.  A call is the sequence of line     *)
(* operations its code performs; the input buffer of the line may hold     *)
(* bytes that arrived before the call (a late or unread answer).  A read   *)
(* returns what is first in the buffer.                                    *)
(***************************************************************************)
nonLineVars == << coreVars, frameVars,
    monitorVars,
    mutexVars,
    shutdownVars,
    checkedVars,
    powerVars,
    lockVars >>

Transaction == << "reset_input_buffer", "write", "read" >>

\* GearPumpController.read_coils / read_register / write_register /
\* write_registers
GearPumpCalls ==
    [ c \in { "gearpump.read_coils", "gearpump.read_register",
              "gearpump.write_register", "gearpump.write_registers" } |->
        << "reset_input_buffer", "write", "read" >> ]

\* RelayControl.control_relay / read_relay_state
RelayCalls ==
    [ c \in { "relay.control_relay", "relay.read_relay_state" } |->
        << "reset_input_buffer", "write", "read" >> ]

\* PressureSensor.send_request (function codes 0x03 and 0x06)
PressureCalls ==
    [ c \in { "pressure.send_request" } |->
        << "reset_input_buffer", "write", "read" >> ]

\* LeakageSensor.send_request
LeakageCalls ==
    [ c \in { "leakage.send_request" } |-> << "write", "read" >> ]

\* PowerSupplyControl: the queries, and the commands (send_command alone)
PowerSupplyCalls ==
    [ c \in { "ps.read_state", "ps.read_current", "ps.read_voltage",
              "ps.read_power", "ps.read_set_current", "ps.read_set_voltage",
              "ps.turn_on", "ps.turn_off", "ps.set_current", "ps.set_voltage" } |->
        IF c \in { "ps.turn_on", "ps.turn_off", "ps.set_current", "ps.set_voltage" }
        THEN << "write" >>
        ELSE << "reset_input_buffer", "write", "read" >> ]

\* The stale bytes left when the operations ops begin with stale bytes in
\* the buffer and the device answers the request (answered) or not.
RECURSIVE stale_after(_, _, _)
stale_after(ops, stale, answered) ==
    IF ops = << >> THEN stale
    ELSE IF Head(ops) = "reset_input_buffer" THEN stale_after(Tail(ops), 0, answered)
    ELSE IF Head(ops) = "read"
    THEN stale_after(Tail(ops), IF answered THEN stale ELSE 0, answered)
    ELSE stale_after(Tail(ops), stale, answered)

\* What the read of the call returns: the answer, nothing (timeout), or
\* bytes that were in the buffer before the request was written.
RECURSIVE read_returns(_, _, _)
read_returns(ops, stale, answered) ==
    IF ops = << >> THEN "no read"
    ELSE IF Head(ops) = "reset_input_buffer" THEN read_returns(Tail(ops), 0, answered)
    ELSE IF Head(ops) = "read"
    THEN IF stale > 0 THEN "stale" ELSE IF answered THEN "answer" ELSE "nothing"
    ELSE read_returns(Tail(ops), stale, answered)

client_call(calls) ==
    /\ \E c \in DOMAIN calls, answered \in BOOLEAN :
          /\ call' = c
          /\ io_log' = calls[c]
          /\ in_buffer' = stale_after(calls[c], in_buffer, answered)
          /\ read_got' = read_returns(calls[c], in_buffer, answered)
    /\ UNCHANGED nonLineVars

gearpump_call == client_call(GearPumpCalls)
relay_call == client_call(RelayCalls)
pressure_call == client_call(PressureCalls)
leakage_call == client_call(LeakageCalls)
power_supply_call == client_call(PowerSupplyCalls)

\* A byte arrives on the line outside a call (an answer that came after
\* the read had timed out).
byte_arrives ==
    /\ in_buffer < MaxStale
    /\ in_buffer' = in_buffer + 1
    /\ UNCHANGED << nonLineVars, call, io_log, read_got >>

NextLine ==
    \/ gearpump_call
    \/ relay_call
    \/ pressure_call
    \/ leakage_call
    \/ power_supply_call
    \/ byte_arrives

SpecLine == Init /\ [][NextLine]_vars

(***************************************************************************)
(* The polling monitors of the gear pump, servo and relay workers.  A tick *)
(* is one call of the monitor's slot by its poll timer.  Each device read  *)
(* of a tick succeeds ("ok"), fails inside the client, which logs and      *)
(* returns None ("ModbusError"), or raises out of the client ("raised").   *)
(* poll_log keeps the attempts of the last tick with the value the device  *)
(* held at each attempt.                                                   *)
(***************************************************************************)
nonMonitorVars ==
    << impl, scheduler, seqVars, setVars, tickVars, relay_cmd,
       relay_state_received, chk_relay, psVars, pump_cmd, chk_pump,
       servo_goal, chk_close, chk_open, chk_tor_close, chk_tor_open,
       histVars, ctlVars, prev_power, prev_target, schedVars, searchVars,
       frameVars, lineVars,
    mutexVars,
    shutdownVars,
    checkedVars,
    powerVars,
    lockVars >>

ReadOutcomes == { "ok", "ModbusError", "raised" }

\* The outcomes of the five reads of a gear pump tick: all succeed, or one
\* of them fails in either way.
PumpOutcomes ==
    { [ j \in 1 .. 5 |-> IF j = i THEN f ELSE "ok" ] :
        i \in 1 .. 5, f \in ReadOutcomes }

PumpReadings == << "flow", "rotate_rate", "pressure", "temperature", "pump_state" >>

DeviceRates == { 0, 1340 }
DevicePumpStates == { "ON", "OFF" }

\* What the servos hold when they are polled: all closed and released, or
\* all open and loaded.
ServoSnapshots ==
    { [ pos |-> [s \in Servos |-> ServoClosePos], load |-> [s \in Servos |-> 0] ],
      [ pos |-> [s \in Servos |-> ServoOpenPos], load |-> [s \in Servos |-> 40] ] }

\* The servos whose read_all raises in a tick.
ServoFailSets == { {}, {2}, Servos }

DeviceRelayStates == { RelayBits({}), RelayBits({0}) }

\* The slot of a stopped worker stops its timer and reads nothing.
stop_timer(worker) ==
    /\ poll_timer[worker] = "active"
    /\ ~worker_running[worker]
    /\ poll_timer' = [poll_timer EXCEPT ![worker] = "stopped"]
    /\ UNCHANGED << nonMonitorVars, worker_running, cur_state, poll_log,
                    cur_rotate_rate, servos_pos, servos_load, relay_coils >>

\* The number of reads the gear pump tick attempts: the try block ends at
\* the first read that raises, or at the emission of temperature_updated
\* with a pressure of None when that emission raises.
Min(set) == CHOOSE m \in set : \A n \in set : m <= n

reads_attempted(outcome, emit_raises) ==
    Min({ i \in 1 .. 5 : outcome[i] = "raised" }
        \cup (IF outcome[3] # "ok" /\ outcome[4] = "ok" /\ emit_raises
              THEN {4} ELSE {})
        \cup {5})

monitor_gearpump_state ==
    /\ poll_timer["gearpump"] = "active"
    /\ worker_running["gearpump"]
    /\ \E outcome \in PumpOutcomes, rotate \in DeviceRates,
          running_state \in DevicePumpStates :
       \E emit_raises \in IF outcome[3] = "ok" THEN {FALSE} ELSE BOOLEAN :
          LET last == reads_attempted(outcome, emit_raises)
              completed == last = 5 /\ outcome[5] # "raised"
                           /\ ~(outcome[3] # "ok" /\ outcome[4] = "ok" /\ emit_raises)
          IN  /\ poll_log' =
                    [ monitor |-> "gearpump", attempts |->
                        [ i \in 1 .. last |->
                            [ reading |-> PumpReadings[i], id |-> 0,
                              outcome |-> outcome[i],
                              value |-> IF i = 2 THEN << rotate >>
                                        ELSE IF i = 5 THEN << running_state >>
                                        ELSE << >> ] ] ]
              /\ cur_rotate_rate' =
                    IF last >= 2 /\ outcome[2] = "ok" THEN rotate ELSE cur_rotate_rate
              /\ cur_state' =
                    IF completed /\ outcome[5] = "ok" THEN running_state ELSE cur_state
    /\ UNCHANGED << nonMonitorVars, worker_running, poll_timer,
                    servos_pos, servos_load, relay_coils >>

\* The reads of one servo tick, in the order of the servos dictionary.
servo_attempts(failed, snapshot) ==
    [ s \in Servos |->
        [ reading |-> "servo", id |-> s,
          outcome |-> IF s \in failed THEN "raised" ELSE "ok",
          value |-> << snapshot.pos[s], snapshot.load[s] >> ] ]

\* (servo_attempts_one_try: the faulty variant with one try block around
\* the loop, which ends the tick at the first servo that raises.)
servo_attempts_one_try(failed, snapshot) ==
    SubSeq(servo_attempts(failed, snapshot), 1,
           Min({ s \in Servos : s \in failed } \cup { NumReactors }))

servo_attempts_of_tick(failed, snapshot) ==
    servo_attempts(failed, snapshot)

poll_servos ==
    /\ poll_timer["servo"] = "active"
    /\ worker_running["servo"]
    /\ \E failed \in ServoFailSets, snapshot \in ServoSnapshots :
          LET attempts == servo_attempts_of_tick(failed, snapshot)
              read_ok == { attempts[i].id : i \in { j \in DOMAIN attempts :
                                                    attempts[j].outcome = "ok" } }
          IN  /\ poll_log' = [ monitor |-> "servo",
                               attempts |-> attempts ]
              /\ servos_pos' = [ s \in Servos |->
                                   IF s \in read_ok THEN snapshot.pos[s]
                                   ELSE servos_pos[s] ]
              /\ servos_load' = [ s \in Servos |->
                                    IF s \in read_ok THEN snapshot.load[s]
                                    ELSE servos_load[s] ]
    /\ UNCHANGED << nonMonitorVars, worker_running, poll_timer, cur_state,
                    cur_rotate_rate, relay_coils >>

monitor_relay_state ==
    /\ poll_timer["relay"] = "active"
    /\ worker_running["relay"]
    /\ \E outcome \in { "ok", "raised" }, states \in DeviceRelayStates :
          /\ poll_log' = [ monitor |-> "relay",
                           attempts |->
                             << [ reading |-> "relay_state", id |-> 0,
                                  outcome |-> outcome, value |-> states ] >> ]
          /\ relay_coils' = IF outcome = "ok" THEN states ELSE relay_coils
    /\ UNCHANGED << nonMonitorVars, worker_running, poll_timer, cur_state,
                    cur_rotate_rate, servos_pos, servos_load >>

\* stop() of a device worker
stop_worker(worker) ==
    /\ worker_running[worker]
    /\ worker_running' = [worker_running EXCEPT ![worker] = FALSE]
    /\ UNCHANGED << nonMonitorVars, poll_timer, cur_state, poll_log,
                    cur_rotate_rate, servos_pos, servos_load, relay_coils >>

NextMonitor ==
    \/ monitor_gearpump_state
    \/ poll_servos
    \/ monitor_relay_state
    \/ \E worker \in Workers : stop_worker(worker)
    \/ \E worker \in Workers : stop_timer(worker)

SpecMonitor == Init /\ [][NextMonitor]_vars

(***************************************************************************)
(* The serial line of a device worker under its mutex.  Every slot of a    *)
(* worker that uses the line is an activity of its own: it takes the       *)
(* worker's mutex, makes its device-client calls one after the other, each *)
(* a request written and a response read, and releases the mutex.  The     *)
(* activities interleave at every operation on the line.  The ten servos   *)
(* are on the one line of the servo worker.                                *)
(***************************************************************************)
nonMutexVars == << coreVars, frameVars, lineVars, monitorVars,
    shutdownVars,
    checkedVars,
    powerVars,
    lockVars >>

Monitors == { "monitor_gearpump_state", "poll_servos", "monitor_relay_state" }

Checks ==
    { "check_rotate_rate", "check_pump_close", "check_position_close",
      "check_position_open", "check_torque_close", "check_torque_open",
      "check_relay_state" }

KindOf(slot) ==
    IF slot \in Monitors THEN "monitor"
    ELSE IF slot \in Checks THEN "check"
    ELSE "command"

\* The device-client calls one run of a slot can make: the gear pump
\* monitor reads five values and stops at a read that raises, the servo
\* monitor reads every servo, a check sends nothing when it finds a match,
\* a gear pump command sends nothing when its argument is out of range.
Transactions(worker, slot) ==
    IF slot = "monitor_gearpump_state" THEN 1 .. Len(PumpReadings)
    ELSE IF slot = "poll_servos" THEN { NumReactors }
    ELSE IF slot \in Checks \/ worker = "gearpump" THEN { 0, 1 }
    ELSE { 1 }

\* (QMutexLocker_absent: the faulty variant of a slot without the lock.)
QMutexLocker_absent(worker, slot) ==
    slot \in Checks \/ mutex[worker] = "free"

QMutexLocker(worker, slot) ==
    mutex[worker] = "free"

slot_enter(worker, slot) ==
    /\ in_slot[worker][slot] < 0
    /\ QMutexLocker(worker, slot)
    /\ mutex' = [mutex EXCEPT ![worker] = slot]
    /\ \E n \in Transactions(worker, slot) :
          in_slot' = [in_slot EXCEPT ![worker][slot] = n]
    /\ UNCHANGED << nonMutexVars, line_busy, overlapped, last_done >>

line_write(worker, slot) ==
    /\ in_slot[worker][slot] > 0
    /\ line_busy[worker] # slot
    /\ overlapped' = [overlapped EXCEPT ![worker] = @ \/ line_busy[worker] # "none"]
    /\ line_busy' = [line_busy EXCEPT ![worker] = slot]
    /\ UNCHANGED << nonMutexVars, mutex, in_slot, last_done >>

line_read(worker, slot) ==
    /\ in_slot[worker][slot] > 0
    /\ line_busy[worker] = slot
    /\ line_busy' = [line_busy EXCEPT ![worker] = "none"]
    /\ in_slot' = [in_slot EXCEPT ![worker][slot] = @ - 1]
    /\ last_done' = [worker |-> worker, kind |-> KindOf(slot)]
    /\ UNCHANGED << nonMutexVars, mutex, overlapped >>

slot_return(worker, slot) ==
    /\ in_slot[worker][slot] = 0
    /\ in_slot' = [in_slot EXCEPT ![worker][slot] = 0 - 1]
    /\ mutex' = [mutex EXCEPT ![worker] = IF @ = slot THEN "free" ELSE @]
    /\ UNCHANGED << nonMutexVars, line_busy, overlapped, last_done >>

NextMutex ==
    \E worker \in Workers : \E slot \in SlotsOf[worker] :
       \/ slot_enter(worker, slot)
       \/ line_write(worker, slot)
       \/ line_read(worker, slot)
       \/ slot_return(worker, slot)

SpecMutex == Init /\ [][NextMutex]_vars

(***************************************************************************)
(* Shutdown of the main window.  closeEvent quits the threads of the       *)
(* device workers and waits for them, then closes every port.  The         *)
(* sequencer main.py starts is the polling one (inter_oper.py); closeEvent *)
(* neither calls its stop() nor waits for its thread, so run() goes on     *)
(* while and after the ports are closed.  With the device workers gone     *)
(* no monitor refreshes a reading: of the sequencer only the head of the   *)
(* loop of run() is taken after the close.                                 *)
(***************************************************************************)
nonShutdownVars == << coreVars, frameVars, lineVars, monitorVars, mutexVars,
    checkedVars,
    powerVars,
    lockVars >>

\* close_connection / close_serial of a device client: the port is closed
\* only if it is open.  The result is << is_open, closes >> of the port.
close_connection(is_open, closes) ==
    IF is_open THEN << FALSE, closes + 1 >> ELSE << FALSE, closes >>

closeEvent ==
    /\ window = "open"
    /\ window' = "closed"
    /\ port_open' = [ p \in Ports |-> close_connection(port_open[p], port_closes[p])[1] ]
    /\ port_closes' = [ p \in Ports |-> close_connection(port_open[p], port_closes[p])[2] ]
    /\ close_calls' = close_calls + Cardinality(Ports)
    /\ UNCHANGED nonShutdownVars

\* A further call of a device's close after the window has closed.
close_again(p) ==
    /\ window = "closed"
    /\ close_calls < MaxCloseCalls
    /\ close_calls' = close_calls + 1
    /\ port_open' = [ port_open EXCEPT ![p] = close_connection(port_open[p], port_closes[p])[1] ]
    /\ port_closes' = [ port_closes EXCEPT ![p] = close_connection(port_open[p], port_closes[p])[2] ]
    /\ UNCHANGED << nonShutdownVars, window >>

run_while_open ==
    /\ window = "open"
    /\ \/ SequencerV1
       \/ stop_v1

run_after_close ==
    /\ window = "closed"
    /\ loop_v1

NextShutdown ==
    \/ run_while_open
    \/ run_after_close
    \/ closeEvent
    \/ \E p \in Ports : close_again(p)

SpecShutdown == Init /\ [][NextShutdown]_vars

(***************************************************************************)
(* Checked commands of the device workers, one at a time.  A checked       *)
(* command sends its command and schedules a check; the check compares     *)
(* what the worker holds with the target and either ends the chain or      *)
(* sends the command again and schedules the next check.  The polling      *)
(* sequencer waits on the same command in a loop of its own.  The monitor  *)
(* of the worker refreshes the value between the checks.                   *)
(***************************************************************************)
nonCheckedVars ==
    << coreVars, frameVars, lineVars, monitorVars, mutexVars, shutdownVars,
    powerVars,
    lockVars >>

CheckedKinds ==
    { "pump", "valve_close", "valve_open", "torque_close", "torque_open",
      "ps", "relay" }

\* The kinds whose check emits a confirmation signal (interop, inter_close,
\* inter_open, tor_close, tor_open).
EmittingKinds ==
    { "pump", "valve_close", "valve_open", "torque_close", "torque_open" }

Targets(kind) ==
    IF kind = "pump" THEN { get_gearpump_rotate_rate(n) : n \in 1 .. 2 }
    ELSE IF kind = "ps" THEN { get_ps_voltage(n) : n \in 1 .. 2 }
    ELSE IF kind = "valve_close" THEN { ServoClosePos }
    ELSE IF kind = "valve_open" THEN { ServoOpenPos }
    ELSE IF kind = "relay" THEN { RelayBits({}), RelayBits({0}) }
    ELSE { 0 }

\* What the monitor may read of the device while the command is under way.
Observations(kind, target) ==
    IF kind = "pump"
    THEN { 0, target - RateTolerance, target - RateTolerance + 1, target,
           target + RateTolerance }
    ELSE IF kind = "ps" THEN { 0, target - 5, target }
    ELSE IF kind = "valve_close"
    THEN { ServoOpenPos, ServoClosePolled, ServoCloseChecked - 1,
           ServoCloseChecked, ServoClosePos }
    ELSE IF kind = "valve_open"
    THEN { ServoClosePos, ServoOpenChecked + 1, ServoOpenChecked, ServoOpenPos }
    ELSE IF kind = "relay" THEN { RelayBits({}), RelayBits({0}) }
    ELSE { 0, 40 }

\* The comparison of each check slot.
check_matches(kind, value, target, channel_states) ==
    IF kind = "pump" THEN Abs(value - target) < RateTolerance
    ELSE IF kind = "ps" THEN value = target
    ELSE IF kind = "valve_close" THEN value >= ServoCloseChecked
    ELSE IF kind = "valve_open" THEN value <= ServoOpenChecked
    ELSE IF kind = "relay" THEN channel_states = target
    ELSE value = 0

\* The comparison of each wait loop of run().
wait_matches(kind, value, target) ==
    IF kind = "pump" THEN Abs(value - target) < RateTolerance
    ELSE IF kind = "ps" THEN value = target
    ELSE IF kind = "valve_close" THEN ~(value < ServoClosePolled)
    ELSE IF kind = "valve_open" THEN ~(value > ServoOpenChecked)
    ELSE IF kind = "relay" THEN value = target
    ELSE ~(value # 0)

\* The 16 channel states decoded from the response of a relay send (the
\* loop over response[4 + i] of control_relay_checked and check_relay_state).
decoded_states(kind, outcome, reported) ==
    IF kind = "relay" /\ outcome = "ok" THEN reported ELSE << >>

\* channel_states after a send of the relay command: the states parsed
\* from the response by control_relay_checked; new_channel_states, left
\* empty by check_relay_state; unassigned when the send raised.
states_after_send(kind, first, outcome, reported) ==
    IF kind # "relay" THEN << >>
    ELSE IF outcome = "raised" THEN Unbound
    ELSE IF first THEN reported
    ELSE << >>

\* set_rotate_rate_checked, write_position_checked_close / _open,
\* disable_torque_checked_close / _open, set_voltage_checked,
\* control_relay_checked
send_checked(kind) ==
    /\ ~checked.scheduled
    /\ \E target \in Targets(kind), outcome \in { "ok", "raised" } :
          \E value \in Observations(kind, target),
             reported \in Observations(kind, target) :
             /\ checked' = [ kind |-> kind, target |-> target, scheduled |-> TRUE,
                             sends |-> 1, emits |-> 0, last_send |-> outcome,
                             channel_states |->
                                 states_after_send(kind, TRUE, outcome, reported),
                             response_states |->
                                 decoded_states(kind, outcome, reported) ]
             /\ observed' = value
    /\ wait_v1' = "waiting"
    /\ UNCHANGED nonCheckedVars

\* (resend_gives_up: the faulty variant of a check that sends again but
\* schedules no further check.)
resend_gives_up(outcome, reported) ==
    [ checked EXCEPT
        !.sends = @ + 1,
        !.last_send = outcome,
        !.response_states = decoded_states(checked.kind, outcome, reported),
        !.scheduled = FALSE ]

\* The else branch of a check: the command is sent again.  The relay check
\* appends the decoded states to its argument channel_states and hands
\* new_channel_states, still empty, to the next check.
resend(outcome, reported) ==
    [ checked EXCEPT
        !.sends = @ + 1,
        !.last_send = outcome,
        !.response_states = decoded_states(checked.kind, outcome, reported),
        !.channel_states = states_after_send(checked.kind, FALSE, outcome, reported) ]

\* check_rotate_rate, check_position_close / _open, check_torque_close /
\* _open, check_set_voltage, check_relay_state.  The scheduled lambda of
\* the relay check reads channel_states: unassigned, it raises and no
\* check runs.
scheduled_check ==
    /\ checked.scheduled
    /\ IF checked.channel_states = Unbound
       THEN checked' = [ checked EXCEPT !.scheduled = FALSE ]
       ELSE IF check_matches(checked.kind, observed, checked.target,
                             checked.channel_states)
       THEN checked' = [ checked EXCEPT
                           !.scheduled = FALSE,
                           !.emits = IF checked.kind \in EmittingKinds
                                     THEN @ + 1 ELSE @ ]
       ELSE /\ checked.sends < MaxSends
            /\ \E outcome \in { "ok", "raised" } :
                  \E reported \in IF checked.kind = "relay" /\ outcome = "ok"
                                  THEN Observations("relay", checked.target)
                                  ELSE { << >> } :
                     checked' = resend(outcome, reported)
    /\ UNCHANGED << nonCheckedVars, observed, wait_v1 >>

\* A tick of the worker's monitor between two checks.
monitor_refresh ==
    /\ checked.kind # "none"
    /\ \E value \in Observations(checked.kind, checked.target) :
          /\ value # observed
          /\ observed' = value
    /\ UNCHANGED << nonCheckedVars, checked, wait_v1 >>

\* One pass of the wait loop of run() that finds its condition and breaks.
wait_loop_v1 ==
    /\ wait_v1 = "waiting"
    /\ wait_matches(checked.kind, observed, checked.target)
    /\ wait_v1' = "passed"
    /\ UNCHANGED << nonCheckedVars, checked, observed >>

NextChecked ==
    \/ \E kind \in CheckedKinds : send_checked(kind)
    \/ scheduled_check
    \/ monitor_refresh
    \/ wait_loop_v1

SpecChecked == Init /\ [][NextChecked]_vars

(***************************************************************************)
(* Confirmation signals delivered to the event-driven sequencer at any     *)
(* moment: the checked commands of the device workers are also started     *)
(* from the buttons of the main window, and their chains emit the same     *)
(* signals to the slots of the sequencer, whatever state it is in.  The    *)
(* device values are those the monitors hold; the delivery leaves them.    *)
(***************************************************************************)
deliver_relay_state_changed ==
    /\ impl = "v2"
    /\ state # "IDLE"
    /\ on_relay_state_changed
    /\ UNCHANGED relayVars

deliver_voltage_set ==
    /\ impl = "v2"
    /\ state # "IDLE"
    /\ on_voltage_set
    /\ UNCHANGED psVars

deliver_rotate_rate_set ==
    /\ impl = "v2"
    /\ state # "IDLE"
    /\ on_rotate_rate_set
    /\ UNCHANGED pumpVars

deliver_servo_closed(servo_id) ==
    /\ impl = "v2"
    /\ state # "IDLE"
    /\ on_servo_closed(servo_id)
    /\ UNCHANGED << servos_pos, chk_close >>

deliver_torque_disabled_close(servo_id) ==
    /\ impl = "v2"
    /\ state # "IDLE"
    /\ on_torque_disabled_close(servo_id)
    /\ UNCHANGED << servos_load, chk_tor_close >>

deliver_servo_opened(servo_id) ==
    /\ impl = "v2"
    /\ state # "IDLE"
    /\ on_servo_opened(servo_id)
    /\ UNCHANGED << servos_pos, chk_open >>

deliver_torque_disabled_open(servo_id) ==
    /\ impl = "v2"
    /\ state # "IDLE"
    /\ on_torque_disabled_open(servo_id)
    /\ UNCHANGED << servos_load, chk_tor_open >>

Delivery ==
    \/ deliver_relay_state_changed
    \/ deliver_voltage_set
    \/ deliver_rotate_rate_set
    \/ \E servo_id \in Servos : deliver_servo_closed(servo_id)
    \/ \E servo_id \in Servos : deliver_torque_disabled_close(servo_id)
    \/ \E servo_id \in Servos : deliver_servo_opened(servo_id)
    \/ \E servo_id \in Servos : deliver_torque_disabled_open(servo_id)

\* The samples offered to the sequencer here: 15 % and 35 %, one and
\* three reactors.
StrayPowers == { 1500, 3500 }

\* The sequencer with every confirmation, awaited or not, a delivery.
NextStray ==
    \/ run
    \/ check_time_state
    \/ on_timer_timeout
    \/ /\ Len(processed) < MaxStrayTicks
       /\ process_interval_state
       /\ running => available_power' \in StrayPowers
    \/ stop_v2
    \/ Delivery

SpecStray == Init /\ [][NextStray]_vars

(***************************************************************************)
(* The event-driven sequencer left to run: stop() is never called, the     *)
(* sequencer's own steps are taken when enabled, and every checked command *)
(* is eventually confirmed by its check (the device follows the command    *)
(* and the chain of checks reaches the match).                             *)
(***************************************************************************)
process_sparse_interval ==
    /\ process_interval_state
    /\ running => available_power' \in StrayPowers

NextLive ==
    \/ run
    \/ check_time_state
    \/ on_timer_timeout
    \/ process_sparse_interval
    \/ check_relay_state
    \/ check_set_voltage
    \/ check_rotate_rate
    \/ \E servo_id \in Servos : check_position_close(servo_id)
    \/ \E servo_id \in Servos : check_position_open(servo_id)
    \/ \E servo_id \in Servos : check_torque_close(servo_id)
    \/ \E servo_id \in Servos : check_torque_open(servo_id)

LiveSpec ==
    /\ Init
    /\ [][NextLive]_vars
    /\ WF_vars(run)
    /\ WF_vars(check_time_state)
    /\ WF_vars(on_timer_timeout)
    /\ WF_vars(process_interval_state)
    /\ WF_vars(check_relay_state)
    /\ WF_vars(check_set_voltage)
    /\ WF_vars(check_rotate_rate)
    /\ WF_vars(\E servo_id \in Servos : check_position_close(servo_id))
    /\ WF_vars(\E servo_id \in Servos : check_position_open(servo_id))
    /\ WF_vars(\E servo_id \in Servos : check_torque_close(servo_id))
    /\ WF_vars(\E servo_id \in Servos : check_torque_open(servo_id))

(***************************************************************************)
(* The monitor of the power supply and the checked turn-off.  A poll makes *)
(* five reads in one try block; the checked turn-off sends OUTP OFF and    *)
(* its check sends it again until the monitor holds "OFF".                 *)
(***************************************************************************)
nonPowerVars ==
    << impl, scheduler, seqVars, setVars, tickVars, relayVars, ps_cmd, chk_ps,
       pumpVars, servoVars, histVars, ctlVars, prev_power, prev_target,
       schedVars, searchVars, frameVars, lineVars, monitorVars, mutexVars,
       shutdownVars, checkedVars, lockVars >>

\* What read_response returns to read_state: the reply of the supply to
\* OUTP? ("1" / "0"), or the empty string when readline timed out.
StateReplies(output) == { IF output = "ON" THEN "1" ELSE "0", "" }

\* The set voltages the supply may report to VOLT?.
SetVoltages == { get_ps_voltage(n) : n \in 0 .. 2 }

\* The read of a poll that raises: 0 none, 1 read_state, 2 read_current,
\* 3 read_voltage, 4 read_power, 5 read_set_voltage or float() of its reply.
PollFailures == 0 .. 5

\* The state a poll takes from the reply of read_state.
state_of_reply(reply) == IF reply = "1" THEN "ON" ELSE "OFF"

\* PowerSupplyWorker.poll_power_supply
poll_power_supply ==
    \E failed_at \in PollFailures, set_voltage \in SetVoltages :
       \E reply \in IF failed_at = 1 THEN { "raised" } ELSE StateReplies(ps_output) :
          /\ ps_cur_state' = IF failed_at = 1 THEN ps_cur_state
                             ELSE state_of_reply(reply)
          /\ voltage_set' = IF failed_at = 0 THEN set_voltage ELSE voltage_set
          /\ ps_poll' = [ reply |-> reply, failed_at |-> failed_at,
                          off_reply |-> IF failed_at # 1 /\ state_of_reply(reply) = "OFF"
                                        THEN reply ELSE ps_poll.off_reply,
                          state_before |-> ps_cur_state,
                          voltage_before |-> voltage_set ]
          /\ UNCHANGED << nonPowerVars, ps_output, turn_off_chain >>

\* PowerSupplyWorker.turn_on: OUTP ON reaches the supply.
turn_on ==
    /\ ~turn_off_chain.scheduled
    /\ ps_output = "OFF"
    /\ ps_output' = "ON"
    /\ UNCHANGED << nonPowerVars, voltage_set, ps_cur_state, ps_poll, turn_off_chain >>

\* PowerSupplyWorker.turn_off_checked: OUTP OFF is sent, and the supply
\* follows it or not (a lost or garbled command); a check is scheduled.
turn_off_checked ==
    /\ ~turn_off_chain.scheduled
    /\ turn_off_chain' = [ scheduled |-> TRUE, sends |-> 1 ]
    /\ ps_output' \in { ps_output, "OFF" }
    /\ UNCHANGED << nonPowerVars, voltage_set, ps_cur_state, ps_poll >>

\* PowerSupplyWorker.check_turn_off
check_turn_off ==
    /\ turn_off_chain.scheduled
    /\ IF ps_cur_state = "OFF"
       THEN /\ turn_off_chain' = [ turn_off_chain EXCEPT !.scheduled = FALSE ]
            /\ UNCHANGED ps_output
       ELSE /\ turn_off_chain.sends < MaxSends
            /\ turn_off_chain' = [ turn_off_chain EXCEPT !.sends = @ + 1 ]
            /\ ps_output' \in { ps_output, "OFF" }
    /\ UNCHANGED << nonPowerVars, voltage_set, ps_cur_state, ps_poll >>

NextPower ==
    \/ poll_power_supply
    \/ turn_on
    \/ turn_off_checked
    \/ check_turn_off

SpecPower == Init /\ [][NextPower]_vars

(***************************************************************************)
(* Properties                                                              *)
(***************************************************************************)
CloseOrder == << "relay", "ps", "pump", "valve_close", "torque" >>
OpenOrder == << "valve_open", "pump", "torque", "ps", "relay" >>
IsPrefix(s, q) == Len(s) <= Len(q) /\ \A i \in 1 .. Len(s) : s[i] = q[i]
Boundary == state \in {"IDLE", "CHECK_TIME", "PROCESS_INTERVAL"}
PumpConfirmed == Abs(cur_rotate_rate - pump_cmd) < RateTolerance
WaitPosition(w) ==
    CASE w \in {"WAIT_RELAY_STATE_CLOSE", "WAIT_SERVO_MOTOR_OPEN"} -> 1
      [] w \in {"WAIT_POWER_SUPPLY_CLOSE", "WAIT_GEARPUMP_RATE_OPEN"} -> 2
      [] w \in {"WAIT_GEARPUMP_RATE_CLOSE", "WAIT_DISABLE_TORQUE_OPEN"} -> 3
      [] w \in {"WAIT_SERVO_MOTOR_CLOSE", "WAIT_POWER_SUPPLY_OPEN"} -> 4
      [] w \in {"WAIT_DISABLE_TORQUE_CLOSE", "WAIT_RELAY_STATE_OPEN"} -> 5

\* C1: in a deactivation the commands issued so far are a prefix of
\* relay-off, supply voltage, pump rate, valve-close, torque-release; the
\* k-th command is present only when the confirmation awaited for each
\* earlier command has been observed; the sequencer waits on the k-th
\* command exactly when k commands are issued; and a transition that is
\* over has issued all five.
C1_DeactivationOrder ==
    direction = "close" =>
       /\ IsPrefix(issued, CloseOrder)
       /\ Len(issued) >= 1
       /\ relay_cmd = RelayBits(scheduler.running_reactors)
       /\ state \in WaitStates => Len(issued) = WaitPosition(state)
       /\ Len(issued) >= 2 => relay_coils = relay_cmd
       /\ Len(issued) >= 3 =>
             /\ voltage_set = ps_cmd
             /\ ps_cmd = get_ps_voltage(Cardinality(scheduler.running_reactors))
       /\ Len(issued) >= 4 =>
             /\ PumpConfirmed
             /\ pump_cmd = get_gearpump_rotate_rate(Cardinality(scheduler.running_reactors))
       /\ Len(issued) >= 5 =>
             \A r \in IdleReactors : servos_pos[r + 1] >= ServoClosePolled
       /\ Boundary =>
             /\ issued = CloseOrder
             /\ \A r \in IdleReactors : servos_load[r + 1] = 0

C1_Witness ==
    /\ direction = "close"
    /\ state = "CHECK_TIME"
    /\ issued = CloseOrder
    /\ scheduler.running_reactors # {}

\* C2: in an activation the commands issued so far are a prefix of
\* valve-open, pump rate, torque-release, supply voltage, relay-on; the k-th
\* command is present only when the confirmation awaited for each earlier
\* command has been observed; the sequencer waits on the k-th command
\* exactly when k commands are issued; and a transition that is over has
\* issued all five.
C2_ActivationOrder ==
    direction = "open" =>
       /\ IsPrefix(issued, OpenOrder)
       /\ Len(issued) >= 1
       /\ state \in WaitStates => Len(issued) = WaitPosition(state)
       /\ Len(issued) >= 2 =>
             \A r \in scheduler.running_reactors :
                servos_pos[r + 1] <= ServoOpenChecked
       /\ Len(issued) >= 3 =>
             /\ PumpConfirmed
             /\ pump_cmd = get_gearpump_rotate_rate(Cardinality(scheduler.running_reactors))
       /\ Len(issued) >= 4 =>
             \A r \in scheduler.running_reactors : servos_load[r + 1] = 0
       /\ Len(issued) >= 5 =>
             /\ voltage_set = ps_cmd
             /\ ps_cmd = get_ps_voltage(Cardinality(scheduler.running_reactors))
             /\ relay_cmd = RelayBits(scheduler.running_reactors)
       /\ Boundary =>
             /\ issued = OpenOrder
             /\ relay_coils = relay_cmd

C2_Witness ==
    /\ direction = "open"
    /\ state = "CHECK_TIME"
    /\ issued = OpenOrder
    /\ Cardinality(scheduler.running_reactors) >= 2

\* C3: every reactor whose relay channel is commanded on has a valve whose
\* last command is open and whose position has been read as open.
C3_NoPowerOnShutValve ==
    \A r \in Reactors :
       relay_cmd[r + 1] = 1 =>
          /\ servo_goal[r + 1] = ServoOpenPos
          /\ servos_pos[r + 1] <= ServoOpenChecked

C3_Witness ==
    /\ direction = "close"
    /\ \E r \in Reactors : relay_cmd[r + 1] = 1
    /\ \E q \in Reactors :
          /\ relay_cmd[q + 1] = 0
          /\ servo_goal[q + 1] = ServoClosePos
          /\ servos_pos[q + 1] <= ServoOpenChecked

C5_ActiveAtBoundary ==
    Boundary =>
       \A r \in scheduler.running_reactors :
          /\ relay_cmd[r + 1] = 1
          /\ relay_coils[r + 1] = 1
          /\ servo_goal[r + 1] = ServoOpenPos
          /\ servos_pos[r + 1] <= ServoOpenChecked
          /\ ps_cmd = get_ps_voltage(Cardinality(scheduler.running_reactors))
          /\ voltage_set = ps_cmd

C5_Witness ==
    /\ state = "CHECK_TIME"
    /\ index >= 2
    /\ direction = "close"
    /\ scheduler.running_reactors # {}

\* C5 as stated: the same in every reachable state.
C5_ActiveAlways ==
    \A r \in scheduler.running_reactors :
       /\ relay_coils[r + 1] = 1
       /\ servos_pos[r + 1] <= ServoOpenChecked
       /\ voltage_set = get_ps_voltage(Cardinality(scheduler.running_reactors))

\* C6: a sample is scheduled only when no confirmation wait is pending and
\* the previous transition has issued all its commands; the samples
\* scheduled are 0, 1, 2, ... in this order, each once; and while a
\* transition is in flight the index is that of its sample.
C6_Serialized ==
    /\ [](/\ \A i \in 1 .. Len(processed) : processed[i] = i - 1
          /\ state \in WaitStates => Len(processed) = index + 1
          /\ Boundary => Len(processed) = index)
    /\ [][ processed' # processed =>
             /\ state \notin WaitStates
             /\ processed' = Append(processed, Len(processed))
             /\ direction = "close" => issued = CloseOrder
             /\ direction = "open" => issued = OpenOrder ]_vars

C6_Witness ==
    /\ Len(processed) = 3
    /\ state \in WaitStates

\* C7: a stop() called during a confirmation wait leaves the sequencer in
\* that wait, and once the flag is cleared no further command is issued.
C7_StopAtPhaseBoundary ==
    [][ /\ (stop_calls' # stop_calls /\ state \in WaitStates) => state' = state
        /\ ~running => Len(issued') <= Len(issued) ]_vars

\* C8: once stop() has cleared the flag the run ends and finished is
\* emitted, whether or not a device ever confirms.
C8_StopEndsRun == (~running) ~> (state = "FINISHED" /\ finished > 0)

\* C9: a reset() leaves a scheduler as constructed (no running reactor, all
\* minutes 0, energy 0, the configured max_power and interval), the running
\* flag set, and no confirmation wait pending.
C9_ResetIsFresh ==
    [][ reset_calls' # reset_calls =>
          /\ scheduler' = ReactorScheduler(NumReactors, Interval, MaxPower)
          /\ running'
          /\ state' \notin WaitStates ]_vars

\* C10: the target count of a power percentage is floor(p / 10) clamped to
\* 0 .. 10 (9.9 gives 0, 10.0 gives 1, 99.99 gives 9, 100.0 and more give
\* 10), and of two percentages applied one after the other the larger never
\* gets the smaller count.
C10_TargetCount ==
    LET floor10 == available_power \div 1000
        clamped == IF floor10 < 0 THEN 0 ELSE IF floor10 > 10 THEN 10 ELSE floor10
    IN  /\ num_active_reactors_new = clamped
        /\ available_power = 990 => num_active_reactors_new = 0
        /\ available_power = 1000 => num_active_reactors_new = 1
        /\ available_power = 9999 => num_active_reactors_new = 9
        /\ available_power >= 10000 => num_active_reactors_new = 10
        /\ prev_power < available_power => prev_target <= num_active_reactors_new
        /\ prev_power > available_power => prev_target >= num_active_reactors_new

C10_Witness ==
    /\ prev_power = 9999
    /\ available_power = 10000
    /\ prev_target = 9
    /\ num_active_reactors_new = 10

\* C11: after an update with target k the running set has exactly k
\* members, all of them reactor ids 0 .. 9.
C11_ActiveSetSize ==
    last_target >= 0 =>
       /\ Cardinality(scheduler.running_reactors) = last_target
       /\ scheduler.running_reactors \subseteq Reactors

C11_Witness ==
    /\ last_target = 2
    /\ Cardinality(prev_scheduler.running_reactors) = 9
    /\ Cardinality(scheduler.running_reactors) = 2

\* C12: an update that raises the count keeps the running reactors and adds
\* exactly the idle reactors that come first by (minutes before the update,
\* index); with minutes 60 on reactor 0 only and a request for one reactor,
\* reactor 1 is the one selected.
C12_LeastUsedAdded ==
    LET before == prev_scheduler.running_reactors
        added == scheduler.running_reactors \ before
        idle == Reactors \ before
    IN  /\ (last_target > Cardinality(before)) =>
              /\ before \subseteq scheduler.running_reactors
              /\ added \subseteq idle
              /\ Cardinality(added) = last_target - Cardinality(before)
              /\ \A r \in added : \A q \in idle \ added :
                    RuntimeBefore(prev_scheduler, r, q)
        /\ trace = << 1500, 500, 1500 >> => scheduler.running_reactors = {1}

C12_Witness ==
    /\ trace = << 1500, 500, 1500 >>
    /\ prev_scheduler.reactor_minutes[0] > prev_scheduler.reactor_minutes[1]
    /\ scheduler.running_reactors = {1}

\* C13: an update that lowers the count from a to k removes exactly a - k
\* running reactors, those that come first by (largest minutes before the
\* update, then lowest index).
C13_MostUsedRemovedLowestIndexFirst ==
    LET before == prev_scheduler.running_reactors
        removed == before \ scheduler.running_reactors
    IN  (last_target >= 0 /\ last_target < Cardinality(before)) =>
           /\ scheduler.running_reactors \subseteq before
           /\ Cardinality(removed) = Cardinality(before) - last_target
           /\ \A r \in removed : \A q \in before \ removed :
                 \/ prev_scheduler.reactor_minutes[r] > prev_scheduler.reactor_minutes[q]
                 \/ /\ prev_scheduler.reactor_minutes[r] = prev_scheduler.reactor_minutes[q]
                    /\ r < q

\* C14: an update adds the interval to the minutes of every reactor of the
\* resulting running set and leaves the minutes of every other reactor as
\* they were; no reactor's minutes decrease.
C14_MinutesFrame ==
    last_target >= 0 =>
       \A r \in Reactors :
          /\ scheduler.reactor_minutes[r] =
                prev_scheduler.reactor_minutes[r] +
                (IF r \in scheduler.running_reactors THEN scheduler.interval ELSE 0)
          /\ scheduler.reactor_minutes[r] >= prev_scheduler.reactor_minutes[r]

C14_Witness ==
    /\ \E r \in scheduler.running_reactors :
          scheduler.reactor_minutes[r] = 2 * scheduler.interval
    /\ \E r \in scheduler.running_reactors :
          scheduler.reactor_minutes[r] = scheduler.interval
    /\ \E r \in Reactors \ scheduler.running_reactors :
          scheduler.reactor_minutes[r] = scheduler.interval

\* C15: an update with target k adds k * (0.1 * max_power) * (interval / 60)
\* to total_energy_consumed (k * max_power * interval units of 1/600 kWh), so
\* the total never decreases and is the sum over the trace; the trace 5, 15,
\* 25, 95 % with max_power 100 and 20-minute intervals has targets 0, 1, 2,
\* 9 and a total of 40 kWh.
RECURSIVE SumTargets(_)
SumTargets(powers) ==
    IF powers = << >> THEN 0
    ELSE get_operational_reactors(Head(powers)) + SumTargets(Tail(powers))

C15_EnergyAccounting ==
    /\ last_target >= 0 =>
          /\ scheduler.total_energy_consumed =
                prev_scheduler.total_energy_consumed +
                last_target * scheduler.max_power * scheduler.interval
          /\ scheduler.total_energy_consumed >= prev_scheduler.total_energy_consumed
    /\ scheduler.total_energy_consumed =
          SumTargets(trace) * scheduler.max_power * scheduler.interval
    /\ (/\ trace = << 500, 1500, 2500, 9500 >>
        /\ scheduler.interval = 20
        /\ scheduler.max_power = 100) =>
          /\ [ i \in 1 .. 4 |-> get_operational_reactors(trace[i]) ] = << 0, 1, 2, 9 >>
          /\ last_target = 9
          /\ scheduler.total_energy_consumed = 40 * 600

C15_Witness ==
    /\ trace = << 500, 1500, 2500, 9500 >>
    /\ scheduler.interval = 20
    /\ scheduler.max_power = 100
    /\ scheduler.total_energy_consumed = 24000

\* C16: calculate_efficiency(g) returns total_energy_consumed / g when g is
\* not zero and 0 when g is zero: the value last returned is always the one
\* or the other, computed from the scheduler it was called on.
C16_EfficiencyQuotient ==
    efficiency = IF generated_arg = 0
                 THEN Zero
                 ELSE [num |-> trial.total_energy_consumed,
                       den |-> generated_arg]

\* C16 witness: a call with g = 0 on a scheduler that has consumed energy.
C16_Witness ==
    /\ results # << >>
    /\ generated_arg = 0
    /\ trial.total_energy_consumed > 0
    /\ efficiency = Zero

\* The efficiency calculate_efficiency_for_x returns for candidate x on the
\* loaded trace (the energy of a trial does not depend on which reactors
\* were removed, so any of its final schedulers gives it).
efficiency_of(x) ==
    calculate_efficiency(
        CHOOSE s \in schedule_all({trial_scheduler(x)}, power_percentages(x)) : TRUE,
        total_solar_power_generated)

SameValue(a, b) == ~GreaterThan(a, b) /\ ~GreaterThan(b, a)

\* C17: every find_best_x returns a member of its candidate list whose
\* efficiency is the maximum over the list, the first such member in
\* iteration order, together with that efficiency -- also when every
\* candidate's efficiency is 0.
C17_FirstMaximumReturned ==
    \A i \in 1 .. Len(results) :
        LET r == results[i]
        IN  \E j \in 1 .. Len(r.x_values) :
               /\ r.best_x = r.x_values[j]
               /\ SameValue(r.best_efficiency, efficiency_of(r.x_values[j]))
               /\ \A k \in 1 .. Len(r.x_values) :
                     ~GreaterThan(efficiency_of(r.x_values[k]),
                                  efficiency_of(r.x_values[j]))
               /\ \A k \in 1 .. (j - 1) :
                     GreaterThan(efficiency_of(r.x_values[j]),
                                 efficiency_of(r.x_values[k]))

\* C18: the search is deterministic: two runs of find_best_x on the same
\* trace, candidate list and interval return the same x and the same
\* efficiency.
C18_SearchDeterministic ==
    \A i, j \in 1 .. Len(results) :
        results[i].x_values = results[j].x_values =>
            /\ results[i].best_x = results[j].best_x
            /\ results[i].best_efficiency = results[j].best_efficiency

\* C18 witness: two runs on the same list have returned, on a trace whose
\* winning trial had to drop a reactor among ten equally used ones.
C18_Witness ==
    /\ Len(results) >= 2
    /\ results[1].x_values = results[2].x_values
    /\ solar_data = << 100, 90 >>
    /\ results[2].best_x = 100
    /\ Cardinality(schedule_all({trial_scheduler(100)}, power_percentages(100))) > 1

\* The targets of the trial for candidate x on the loaded trace.
TrialTargets(x) ==
    [ i \in 1 .. Len(solar_data) |-> trial_target(power_percentages(x)[i]) ]

RECURSIVE MinutesSum(_, _)
MinutesSum(s, n) ==
    IF n = 0 THEN 0 ELSE s.reactor_minutes[n - 1] + MinutesSum(s, n - 1)

\* C19: a trial of the efficiency search leaves the live scheduler as it
\* was and starts from a fresh scheduler: what the trial's scheduler holds
\* afterwards is what the trace alone gives from zero (energy and minutes
\* of the targets, the last target running), whatever the previous trial
\* left behind.
C19_TrialOnFreshScheduler ==
    [][ (x_index >= 1 /\ x_index' = x_index + 1) =>
            LET targets == TrialTargets(x_values[x_index])
            IN  /\ scheduler' = scheduler
                /\ trial'.total_energy_consumed =
                       SeqSum(targets) * trial'.max_power * Interval
                /\ MinutesSum(trial', NumReactors) = SeqSum(targets) * Interval
                /\ Cardinality(trial'.running_reactors) = targets[Len(targets)]
      ]_vars

\* C19 witness: a second trial has run after one that consumed energy,
\* while the live scheduler holds an update of its own.
C19_Witness ==
    /\ x_index >= 3
    /\ trial.total_energy_consumed > 0
    /\ trace # << >>
    /\ scheduler.running_reactors # {}
    /\ scheduler # trial

\* C20: every constructed request frame is slave id, function code (1, 3,
\* 6 or 16), big-endian address, big-endian count or value, for function 16
\* the byte count and the big-endian values, then the CRC16/Modbus of all
\* these bytes, low byte first (so the CRC over the whole frame is 0 and
\* the published frames 01 03 00 00 00 01 84 0A and 01 06 00 01 00 03 98 0B
\* come out); and the echo of a write-single-register frame parses to the
\* address and value it was built from, which encode to the same bytes.
C20_FrameLayoutAndRoundTrip ==
    request # << >> =>
        LET a == request_args
            n == Len(request)
            body == SubSeq(request, 1, n - 2)
        IN  /\ \A i \in 1 .. n : request[i] \in 0 .. 255
            /\ request[1] = a.slave_id
            /\ request[2] = a.function_code
            /\ a.function_code \in { 1, 3, 6, 16 }
            /\ request[3] * 256 + request[4] = a.address
            /\ request[5] * 256 + request[6] = a.count
            /\ a.function_code # 16 => n = 8
            /\ a.function_code = 16 =>
                  /\ n = 9 + 2 * Len(a.values)
                  /\ request[7] = 2 * Len(a.values)
                  /\ \A i \in 1 .. Len(a.values) :
                        request[6 + 2 * i] * 256 + request[7 + 2 * i] = a.values[i]
            /\ request[n - 1] + 256 * request[n] = _calculate_crc(body)
            /\ _calculate_crc(request) = 0
            /\ body = << 1, 3, 0, 0, 0, 1 >> => request[7] = 132 /\ request[8] = 10
            /\ body = << 1, 6, 0, 1, 0, 3 >> => request[7] = 152 /\ request[8] = 11
            /\ parsed # None =>
                  /\ parsed.raised = "nothing"
                  /\ parsed.register_address = a.address
                  /\ parsed.written_value = a.count
                  /\ _construct_write_request(a.slave_id, parsed.register_address,
                                              parsed.written_value) = response

\* C20 witness: the frame 01 06 00 01 00 03 98 0B was built, echoed and
\* parsed back to (1, 3).
C20_Witness ==
    /\ request = << 1, 6, 0, 1, 0, 3, 152, 11 >>
    /\ response = request
    /\ parsed # None
    /\ parsed.raised = "nothing"
    /\ parsed.register_address = 1
    /\ parsed.written_value = 3

\* C21: when a parser has accepted a response, the same parser applied to
\* that response with any single bit flipped raises a frame error (CRC
\* mismatch, or incomplete / invalid frame): it neither accepts nor raises
\* the device-exception error.
C21_BitFlipRaisesFrameError ==
    [][ ( /\ parsed # None
          /\ parsed.raised = "nothing"
          /\ request' = request
          /\ OneBitApart(response, response') )
            => parsed'.raised \in { "CRCMismatchError", "ModbusError" }
      ]_vars

\* C22: when the device answers a call with an exception response (the
\* request's function code with the high bit set, one exception code, the
\* CRC), the call raises ModbusExceptionError carrying that code, not a
\* frame or incomplete-response error.
C22_ExceptionResponseRaisesException ==
    ( /\ parsed # None
      /\ Len(response) = 5
      /\ response[1] = request_args.slave_id
      /\ response[2] = request_args.function_code + 128
      /\ ~crc_mismatch(response) )
        => /\ parsed.raised = "ModbusExceptionError"
           /\ parsed.exception_code = response[3]

\* C23: every device-client call clears the input buffer of its line, then
\* writes one request, then reads one response, in that order and once.
C23_OneTransactionPerCall ==
    call # "none" => io_log = Transaction

(***************************************************************************)
(* C24  On a poll tick of the gear pump, servo or relay monitor, a reading *)
(* whose device read fails keeps its stored value (cur_rotate_rate,        *)
(* cur_state, servos_pos[id], servos_load[id], the relay states last       *)
(* reported), no reading is attempted twice in the tick, the tick after a  *)
(* failed one reads again, and in a servo tick every servo is read: those  *)
(* whose read succeeds are updated whatever happened to the others.        *)
(***************************************************************************)
C24_FailedReadKeepsLastValue ==
    [][ poll_log' # poll_log =>
          LET log == poll_log'.attempts
          IN  /\ Len(log) >= 1
              /\ \A i, j \in DOMAIN log :
                    (log[i].reading = log[j].reading /\ log[i].id = log[j].id) => i = j
              /\ \A i \in DOMAIN log :
                    log[i].outcome # "ok" =>
                      /\ log[i].reading = "rotate_rate" => cur_rotate_rate' = cur_rotate_rate
                      /\ log[i].reading = "pump_state" => cur_state' = cur_state
                      /\ log[i].reading = "relay_state" => relay_coils' = relay_coils
                      /\ log[i].reading = "servo" =>
                            /\ servos_pos'[log[i].id] = servos_pos[log[i].id]
                            /\ servos_load'[log[i].id] = servos_load[log[i].id]
              /\ poll_log'.monitor = "gearpump" =>
                    /\ log[1].reading = "flow"
                    /\ log[1].outcome # "raised" =>
                          /\ Len(log) >= 2
                          /\ log[2].reading = "rotate_rate"
                    /\ \A i \in DOMAIN log :
                          /\ log[i].outcome = "ok" /\ log[i].reading = "rotate_rate"
                                => cur_rotate_rate' = log[i].value[1]
              /\ poll_log'.monitor = "servo" =>
                    \A s \in Servos :
                       \E i \in DOMAIN log :
                          /\ log[i].id = s
                          /\ log[i].outcome = "ok" =>
                                /\ servos_pos'[s] = log[i].value[1]
                                /\ servos_load'[s] = log[i].value[2] ]_vars

\* A servo tick in which servo 2 failed and kept a value the device no
\* longer holds while servo 10, read after it, was updated.
C24_Witness ==
    /\ poll_log.monitor = "servo"
    /\ Len(poll_log.attempts) = NumReactors
    /\ poll_log.attempts[2].outcome = "raised"
    /\ poll_log.attempts[2].value[1] # servos_pos[2]
    /\ poll_log.attempts[NumReactors].outcome = "ok"
    /\ servos_pos[NumReactors] = ServoOpenPos
    /\ servos_load[NumReactors] = 40

(***************************************************************************)
(* C25  On each serial line at most one transaction is in progress: under  *)
(* every interleaving of a worker's monitor with its command slots and     *)
(* its checks, no request is written while another request of the same     *)
(* line awaits its response, and at most one slot of a worker is running   *)
(* its device-client calls; the ten servos are on one line.                *)
(***************************************************************************)
C25_OneTransactionPerLine ==
    \A worker \in Workers :
       /\ ~overlapped[worker]
       /\ Cardinality({ slot \in SlotsOf[worker] : in_slot[worker][slot] >= 0 }) <= 1
       /\ line_busy[worker] # "none" => mutex[worker] = line_busy[worker]

\* The request of a re-issuing servo check is on the servo line, the
\* transaction before it on that line having been a read of the monitor.
C25_Witness ==
    /\ line_busy["servo"] = "check_position_close"
    /\ last_done = [worker |-> "servo", kind |-> "monitor"]
    /\ in_slot["servo"]["poll_servos"] < 0

(***************************************************************************)
(* C26  On shutdown every open serial port is closed exactly once (a       *)
(* further call of a close does nothing), the sequence in flight has       *)
(* reached a phase boundary before the ports are closed, and the           *)
(* sequencer issues no command after they are closed.                      *)
(***************************************************************************)
C26_ShutdownAtPhaseBoundary ==
    /\ [](\A p \in Ports :
            /\ port_closes[p] <= 1
            /\ window = "closed" => (~port_open[p] /\ port_closes[p] = 1))
    /\ [][ /\ (window = "open" /\ window' = "closed") => state \notin WaitStates
           /\ window = "closed" => issued' = issued ]_vars

(***************************************************************************)
(* C27  In every transition the supply voltage commanded is the step of    *)
(* the new active count (10 times the count, 0 for none) and the pump rate *)
(* commanded is the table entry of the new active count (0 for none,       *)
(* strictly increasing in the count); when the transition completes, the   *)
(* voltage and the pump rate confirmed are those of the size of the        *)
(* scheduler's active set.                                                 *)
(***************************************************************************)
C27_VoltageAndRateFollowCount ==
    /\ \A n \in 0 .. NumReactors :
          /\ get_ps_voltage(n) = 10 * n
          /\ n = 0 => get_gearpump_rotate_rate(n) = 0
          /\ n < NumReactors =>
                get_gearpump_rotate_rate(n) < get_gearpump_rotate_rate(n + 1)
    /\ [][ LET count == Cardinality(scheduler'.running_reactors)
           IN  /\ issued' = Append(issued, "ps") => ps_cmd' = get_ps_voltage(count)
               /\ issued' = Append(issued, "pump") =>
                     pump_cmd' = get_gearpump_rotate_rate(count)
               /\ (state \in WaitStates /\ state' = "CHECK_TIME") =>
                     /\ voltage_set' = get_ps_voltage(count)
                     /\ Abs(cur_rotate_rate' - get_gearpump_rotate_rate(count))
                           < RateTolerance ]_vars

\* A completed transition to two active reactors: 20 V and rate 1452.
C27_Witness ==
    /\ state = "CHECK_TIME"
    /\ Cardinality(scheduler.running_reactors) = 2
    /\ Len(issued) = 5
    /\ voltage_set = 20
    /\ cur_rotate_rate = 1452

(***************************************************************************)
(* C28  For the checked pump-rate, valve-position, torque-release and      *)
(* supply-voltage commands: a check that finds a mismatch sends the same   *)
(* command again and schedules another check, however many were sent       *)
(* before; the first check that finds a match sends nothing, schedules no  *)
(* further check and (pump, valve, torque) emits the confirmation; the     *)
(* confirmation is emitted once per checked command.                       *)
(***************************************************************************)
C28_CheckReissuesUntilMatch ==
    /\ [](checked.emits <= 1)
    /\ []((checked.kind \in EmittingKinds /\ ~checked.scheduled) => checked.emits = 1)
    /\ [][ ( /\ checked.scheduled
             /\ checked.kind \in CheckedKinds \ { "relay" }
             /\ checked'.scheduled # checked.scheduled
                  \/ checked'.sends # checked.sends
                  \/ checked'.emits # checked.emits )
           => /\ checked'.kind = checked.kind
              /\ checked'.target = checked.target
              /\ IF check_matches(checked.kind, observed, checked.target, << >>)
                 THEN /\ ~checked'.scheduled
                      /\ checked'.sends = checked.sends
                      /\ checked'.emits = IF checked.kind \in EmittingKinds
                                          THEN checked.emits + 1 ELSE checked.emits
                 ELSE /\ checked'.scheduled
                      /\ checked'.sends = checked.sends + 1
                      /\ checked'.emits = checked.emits ]_vars

\* A pump-rate command sent three times whose last check found the rate
\* and emitted the confirmation.
C28_Witness ==
    /\ checked.kind = "pump"
    /\ checked.sends = MaxSends
    /\ ~checked.scheduled
    /\ checked.emits = 1

(***************************************************************************)
(* C29  A confirmation wait completes exactly when the observed value      *)
(* matches the target within the tolerance of the device: the set voltage  *)
(* within 10 units of the target, the pump rate within 10 units (10 itself *)
(* included), the valve position at or beyond its threshold, the load at   *)
(* 0, every reported relay bit equal to the commanded one.                 *)
(***************************************************************************)
WithinTolerance(kind, value, target, threshold_close) ==
    IF kind \in { "pump", "ps" } THEN Abs(value - target) <= RateTolerance
    ELSE IF kind = "valve_close" THEN value >= threshold_close
    ELSE IF kind = "valve_open" THEN value <= ServoOpenChecked
    ELSE IF kind = "relay" THEN value = target
    ELSE value = 0

C29_WaitCompletesWithinTolerance ==
    /\ []( wait_v1 = "waiting" =>
              ( wait_matches(checked.kind, observed, checked.target)
                  <=> WithinTolerance(checked.kind, observed, checked.target,
                                      ServoClosePolled) ) )
    /\ []( (checked.scheduled /\ checked.kind \in CheckedKinds \ { "relay" }) =>
              ( check_matches(checked.kind, observed, checked.target, << >>)
                  <=> WithinTolerance(checked.kind, observed, checked.target,
                                      ServoCloseChecked) ) )
    /\ [][ (wait_v1 = "waiting" /\ wait_v1' = "passed") =>
              WithinTolerance(checked.kind, observed, checked.target,
                              ServoClosePolled) ]_vars

(***************************************************************************)
(* C30  A checked command whose send raised, the first or a later one, is  *)
(* sent again by the next check as after a mismatch: the raised send does  *)
(* not end the chain of checks, for the relay, valve, torque, pump and     *)
(* supply commands alike.                                                  *)
(***************************************************************************)
C30_RaisedSendIsRetried ==
    [][ ( /\ checked.scheduled
          /\ checked.last_send = "raised"
          /\ checked'.scheduled # checked.scheduled
               \/ checked'.sends # checked.sends
          /\ ~check_matches(checked.kind, observed, checked.target,
                            checked.channel_states) )
        => /\ checked'.scheduled
           /\ checked'.sends = checked.sends + 1
           /\ checked'.target = checked.target ]_vars

(***************************************************************************)
(* C31  Once a response of the relay whose decoded channel states equal    *)
(* the desired states has been received, on the first send or on a later   *)
(* one, the pending check sends no further relay write and schedules no    *)
(* further check.                                                          *)
(***************************************************************************)
C31_RelayChainEndsOnConfirmation ==
    [][ ( /\ checked.kind = "relay"
          /\ checked.scheduled
          /\ checked.response_states = checked.target
          /\ checked' # checked )
        => /\ checked'.sends = checked.sends
           /\ ~checked'.scheduled ]_vars

(***************************************************************************)
(* C32  The monitor of the power supply holds "OFF" only from a poll whose *)
(* state query the supply answered with its off reply; a poll whose state  *)
(* read returned nothing or raised leaves cur_state as it was; a poll that *)
(* failed part-way leaves cur_state and voltage_set as they were; and a    *)
(* checked turn-off whose chain has ended was ended by an answered read.   *)
(***************************************************************************)
C32_OffOnlyFromAnsweredPoll ==
    /\ ps_cur_state = "OFF" => ps_poll.off_reply = "0"
    /\ ps_poll.reply \in { "", "raised" } => ps_cur_state = ps_poll.state_before
    /\ ps_poll.failed_at # 0 =>
          /\ ps_cur_state = ps_poll.state_before
          /\ voltage_set = ps_poll.voltage_before
    /\ (turn_off_chain.sends > 0 /\ ~turn_off_chain.scheduled) =>
          ps_poll.off_reply = "0"

(***************************************************************************)
(* C33  At every tick boundary (no transition in flight), after any        *)
(* sequence of ticks and reset() calls, the relay channels last commanded  *)
(* on are exactly the channels of the scheduler's active set: channel      *)
(* r + 1 is on if and only if reactor r is in running_reactors.            *)
(***************************************************************************)
C33_RelaysMatchActiveSetAtBoundary ==
    Boundary =>
       \A r \in Reactors :
          relay_cmd[r + 1] = 1 <=> r \in scheduler.running_reactors

(***************************************************************************)
(* C34  In the event-driven sequencer a confirmation delivered while the   *)
(* sequencer is not in the matching WAIT_* state changes nothing: state,   *)
(* sample index and pending reactor sets are unchanged and no command is   *)
(* issued.  A servo or torque wait advances only when confirmations for    *)
(* all reactors of its pending set have arrived: a confirmation removes    *)
(* its own reactor only, a confirmation for a reactor that is not pending  *)
(* changes nothing, and the wait is left with the last pending reactor.    *)
(***************************************************************************)
NothingDone ==
    UNCHANGED << state, index, setVars, histVars, relay_cmd, ps_cmd, pump_cmd,
                 servo_goal, chk_relay, chk_ps, chk_pump, chk_close, chk_open,
                 chk_tor_close, chk_tor_open, scheduler, running, finished >>

SetWait(wait, pending, pending_next, next_state) ==
    /\ (state = wait /\ next_state = wait) =>
          /\ pending_next # {}
          /\ pending_next \subseteq pending
          /\ Cardinality(pending \ pending_next) <= 1
    /\ (state = wait /\ next_state \notin { wait, "FINISHED" }) =>
          /\ Cardinality(pending) = 1
          /\ pending_next = {}

C34_StrayConfirmationIgnored ==
    [][ /\ \/ NothingDone
           \/ /\ ~( /\ state \notin { "WAIT_RELAY_STATE_CLOSE", "WAIT_RELAY_STATE_OPEN" }
                    /\ deliver_relay_state_changed )
              /\ ~( /\ state \notin { "WAIT_POWER_SUPPLY_CLOSE", "WAIT_POWER_SUPPLY_OPEN" }
                    /\ deliver_voltage_set )
              /\ ~( /\ state \notin { "WAIT_GEARPUMP_RATE_CLOSE", "WAIT_GEARPUMP_RATE_OPEN" }
                    /\ deliver_rotate_rate_set )
              /\ \A servo_id \in Servos :
                    /\ ~( /\ \/ state # "WAIT_SERVO_MOTOR_CLOSE"
                             \/ servo_id - 1 \notin reactors_to_close
                          /\ deliver_servo_closed(servo_id) )
                    /\ ~( /\ \/ state # "WAIT_DISABLE_TORQUE_CLOSE"
                             \/ servo_id - 1 \notin reactors_to_distorque_close
                          /\ deliver_torque_disabled_close(servo_id) )
                    /\ ~( /\ \/ state # "WAIT_SERVO_MOTOR_OPEN"
                             \/ servo_id - 1 \notin reactors_to_open
                          /\ deliver_servo_opened(servo_id) )
                    /\ ~( /\ \/ state # "WAIT_DISABLE_TORQUE_OPEN"
                             \/ servo_id - 1 \notin reactors_to_distorque_open
                          /\ deliver_torque_disabled_open(servo_id) )
        /\ SetWait("WAIT_SERVO_MOTOR_CLOSE", reactors_to_close,
                   reactors_to_close', state')
        /\ SetWait("WAIT_DISABLE_TORQUE_CLOSE", reactors_to_distorque_close,
                   reactors_to_distorque_close', state')
        /\ SetWait("WAIT_SERVO_MOTOR_OPEN", reactors_to_open,
                   reactors_to_open', state')
        /\ SetWait("WAIT_DISABLE_TORQUE_OPEN", reactors_to_distorque_open,
                   reactors_to_distorque_open', state') ]_vars

\* In the second transition, a wait for closed valves that some but not
\* all of the pending reactors have confirmed, while torque confirmations
\* of the transition before are still deliverable.
C34_Witness ==
    /\ impl = "v2"
    /\ state = "WAIT_SERVO_MOTOR_CLOSE"
    /\ Len(processed) = MaxStrayTicks
    /\ reactors_to_close # {}
    /\ reactors_to_close # IdleReactors
    /\ reactors_to_close \subseteq IdleReactors

(***************************************************************************)
(* C35  Liveness of the event-driven sequencer: under fair scheduling,     *)
(* with every issued command eventually confirmed and stop() never called, *)
(* every sample index 0 .. len - 1 is processed exactly once in increasing *)
(* order, the index increases by exactly 1 per processed sample whether or *)
(* not the count changed, and the worker then reaches FINISHED and emits   *)
(* finished.                                                               *)
(***************************************************************************)
C35_EverySampleThenFinished ==
    /\ (impl = "v2") =>
          <>( /\ state = "FINISHED"
              /\ finished = 1
              /\ index = MaxTicks
              /\ Len(processed) = MaxTicks
              /\ \A i \in 1 .. MaxTicks : processed[i] = i - 1 )
    /\ [][ /\ index' # index => (index' = index + 1 /\ Len(processed') = index')
           /\ processed' # processed => processed' = Append(processed, index)
           /\ finished' # finished => index = MaxTicks ]_vars

\* The last sample processed without a change of count, after samples that
\* changed it, and the run finished.
C35_Witness ==
    /\ impl = "v2"
    /\ state = "FINISHED"
    /\ finished = 1
    /\ Len(processed) = MaxTicks
    /\ Len(issued) = 5
    /\ stop_calls = 0

(***************************************************************************)
(* C36  The scheduler never switches reactors needlessly: an update that   *)
(* raises the count keeps every running reactor, an update that lowers it  *)
(* activates none, and an update with the count unchanged leaves the       *)
(* running set as it was.                                                  *)
(***************************************************************************)
C36_NoNeedlessSwitch ==
    LET before == prev_scheduler.running_reactors
        now == scheduler.running_reactors
    IN  last_target >= 0 =>
           /\ last_target > Cardinality(before) => before \subseteq now
           /\ last_target < Cardinality(before) => now \subseteq before
           /\ last_target = Cardinality(before) => now = before

\* A raise from one running reactor that has more minutes than idle ones.
C36_Witness ==
    /\ last_target > Cardinality(prev_scheduler.running_reactors)
    /\ \E r \in prev_scheduler.running_reactors :
          \E q \in Reactors \ scheduler.running_reactors :
             prev_scheduler.reactor_minutes[r] > prev_scheduler.reactor_minutes[q]

(***************************************************************************)
(* C37  The fairness ledger and the energy account agree: after any        *)
(* sequence of updates the sum of reactor_minutes over all reactors is the *)
(* interval times the sum of the targets applied, and total_energy_consumed*)
(* is 0.1 * max_power * (sum of reactor_minutes) / 60 (in units of 1/600   *)
(* kWh: max_power times the sum of the minutes).                           *)
(***************************************************************************)
C37_LedgerMatchesEnergy ==
    /\ MinutesSum(scheduler, NumReactors) = scheduler.interval * SumTargets(trace)
    /\ scheduler.total_energy_consumed =
          scheduler.max_power * MinutesSum(scheduler, NumReactors)

\* Four updates, the last lowering the count, on a 20-minute scheduler.
C37_Witness ==
    /\ Len(trace) = MaxUpdates
    /\ scheduler.interval = 20
    /\ last_target > 0
    /\ last_target < Cardinality(prev_scheduler.running_reactors)
    /\ MinutesSum(scheduler, NumReactors) > MinutesSum(prev_scheduler, NumReactors)

(***************************************************************************)
(* C39  After every update_reactor_minutes_v2, relays_to_oc is a list of   *)
(* exactly 16 bits in which bit i is 1 if and only if reactor i is in the  *)
(* running set (i in 0 .. 9) and bits 10 .. 15 are 0; the relay command    *)
(* the sequencer sends for channels 1 .. 16 is that list.                  *)
(***************************************************************************)
C39_RelayListIsActiveSet ==
    /\ Len(processed) > 0 =>
          /\ Len(scheduler.relays_to_oc) = NumRelayChannels
          /\ \A i \in 0 .. (NumRelayChannels - 1) :
                /\ scheduler.relays_to_oc[i + 1] \in { 0, 1 }
                /\ scheduler.relays_to_oc[i + 1] = 1 <=>
                      (i \in scheduler.running_reactors /\ i < NumReactors)
                /\ i >= NumReactors => scheduler.relays_to_oc[i + 1] = 0
    /\ (issued # << >> /\ issued[Len(issued)] = "relay") =>
          relay_cmd = scheduler.relays_to_oc

\* The relay command of an activation just sent, two reactors running.
C39_Witness ==
    /\ state = "WAIT_RELAY_STATE_OPEN"
    /\ Cardinality(scheduler.running_reactors) = 2
    /\ relay_cmd = scheduler.relays_to_oc
    /\ relay_cmd[1] = 1
    /\ relay_cmd[NumRelayChannels] = 0


(***************************************************************************)
(* The mutexes of the workers and of the first sequencer.  Every device    *)
(* worker lives in a thread of its own and runs its slots there, one at a  *)
(* time: the monitor from its timer, a checked command posted by the       *)
(* sequencer's signal, and the check a checked command schedules.  Each    *)
(* slot is one "with QMutexLocker(self.mutex)" block around a device call  *)
(* inside try/except.  The sequencer thread emits a checked command and    *)
(* then loops: it takes its own mutex, reads the worker's attribute,       *)
(* leaves the block and sleeps.  The GUI thread calls receive_relay_state, *)
(* which takes the sequencer's mutex.  A thread that asks for a mutex is   *)
(* blocked until the mutex is free: QMutex is not recursive.               *)
(***************************************************************************)
nonLockVars == << coreVars, frameVars, lineVars, monitorVars, mutexVars,
                  shutdownVars, checkedVars, powerVars >>

Threads == LockWorkers \cup { "io_worker", "gui" }

SlotKinds == { "monitor", "checked_command", "check" }

DeviceOutcomes == { "ok", "raises" }

AtEventLoop == [ pos |-> "event_loop", slot |-> "none", wants |-> "none" ]

\* The constructor of QMutexLocker returns: the mutex was free and is now
\* the thread's.
locker_acquire(thread) ==
    /\ thread_at[thread].pos = "blocked"
    /\ held[thread_at[thread].wants] = "free"
    /\ held' = [held EXCEPT ![thread_at[thread].wants] = thread]
    /\ thread_at' = [thread_at EXCEPT ![thread].pos = "locked"]
    /\ UNCHANGED << nonLockVars, queued >>

\* (with_exit_unless_raised: the faulty variant that unlocks on the normal
\* path only, as lock() and unlock() around the call would.)
with_exit_unless_raised(m, outcome) ==
    IF outcome = "raises" THEN held ELSE [held EXCEPT ![m] = "free"]

\* Leaving the with block destroys the locker and unlocks the mutex,
\* whatever happened inside.
with_exit(m, outcome) ==
    [held EXCEPT ![m] = "free"]

\* The event loop of a worker thread calls a slot: the monitor on a timer
\* timeout, or a call that was posted to the thread.
worker_slot_called(worker, slot) ==
    /\ thread_at[worker].pos = "event_loop"
    /\ slot = "monitor" \/ slot \in queued[worker]
    /\ queued' = [queued EXCEPT ![worker] = @ \ { slot }]
    /\ thread_at' = [thread_at EXCEPT
                       ![worker] = [ pos |-> "blocked", slot |-> slot,
                                     wants |-> worker ]]
    /\ UNCHANGED << nonLockVars, held >>

\* The body of a slot: the device call, which may raise into the except
\* clause, the single shot a checked command always schedules and a check
\* schedules again on a mismatch, and the end of the with block.
worker_slot_body(worker, outcome, again) ==
    /\ thread_at[worker].pos = "locked"
    /\ held' = with_exit(worker, outcome)
    /\ queued' =
          [queued EXCEPT ![worker] =
              IF \/ thread_at[worker].slot = "checked_command"
                 \/ thread_at[worker].slot = "check" /\ again
              THEN @ \cup { "check" } ELSE @]
    /\ thread_at' = [thread_at EXCEPT ![worker] = AtEventLoop]
    /\ UNCHANGED nonLockVars

\* run() emits the checked signal of a worker and enters the wait loop.
run_wait_emit(worker) ==
    /\ thread_at["io_worker"].pos = "run"
    /\ queued' = [queued EXCEPT ![worker] = @ \cup { "checked_command" }]
    /\ thread_at' = [thread_at EXCEPT
                       !["io_worker"] = [ pos |-> "wait", slot |-> worker,
                                          wants |-> "none" ]]
    /\ UNCHANGED << nonLockVars, held >>

\* One pass of the wait loop asks for the sequencer's mutex.
run_wait_pass ==
    /\ thread_at["io_worker"].pos = "wait"
    /\ thread_at' = [thread_at EXCEPT !["io_worker"].pos = "blocked",
                                      !["io_worker"].wants = "io_worker"]
    /\ UNCHANGED << nonLockVars, held, queued >>

\* Under the mutex the pass reads the worker's attribute; it breaks out of
\* the loop when the target is met and sleeps before the next pass
\* otherwise.
run_wait_read(met) ==
    /\ thread_at["io_worker"].pos = "locked"
    /\ held' = with_exit("io_worker", "ok")
    /\ thread_at' = [thread_at EXCEPT
                       !["io_worker"] =
                          IF met
                          THEN [ pos |-> "run", slot |-> "none",
                                 wants |-> "none" ]
                          ELSE [ pos |-> "wait", slot |-> @.slot,
                                 wants |-> "none" ]]
    /\ UNCHANGED << nonLockVars, queued >>

\* update_relay_states of the main window calls receive_relay_state in the
\* GUI thread.
receive_relay_state_called ==
    /\ thread_at["gui"].pos = "event_loop"
    /\ thread_at' = [thread_at EXCEPT
                       !["gui"] = [ pos |-> "blocked",
                                    slot |-> "receive_relay_state",
                                    wants |-> "io_worker" ]]
    /\ UNCHANGED << nonLockVars, held, queued >>

receive_relay_state ==
    /\ thread_at["gui"].pos = "locked"
    /\ held' = with_exit("io_worker", "ok")
    /\ thread_at' = [thread_at EXCEPT !["gui"] = AtEventLoop]
    /\ UNCHANGED << nonLockVars, queued >>

NextLock ==
    \/ \E thread \in Threads : locker_acquire(thread)
    \/ \E worker \in LockWorkers : \E slot \in SlotKinds :
          worker_slot_called(worker, slot)
    \/ \E worker \in LockWorkers : \E outcome \in DeviceOutcomes :
          \E again \in BOOLEAN : worker_slot_body(worker, outcome, again)
    \/ \E worker \in LockWorkers : run_wait_emit(worker)
    \/ run_wait_pass
    \/ \E met \in BOOLEAN : run_wait_read(met)
    \/ receive_relay_state_called
    \/ receive_relay_state

SpecLock == Init /\ [][NextLock]_vars

\* The event loop of a worker thread serves its timer again and again, and
\* a thread that can go on does; nothing is assumed of the sequencer or of
\* the GUI.
FairLock ==
    /\ SpecLock
    /\ \A worker \in LockWorkers :
          /\ SF_vars(worker_slot_called(worker, "monitor"))
          /\ WF_vars(locker_acquire(worker))
          /\ WF_vars(\E outcome \in DeviceOutcomes : \E again \in BOOLEAN :
                        worker_slot_body(worker, outcome, again))

MutexesOf(thread) == { m \in DOMAIN held : held[m] = thread }

PollingUnderLock(worker) ==
    thread_at[worker] = [ pos |-> "locked", slot |-> "monitor",
                          wants |-> worker ]

LockDiscipline ==
    /\ \A thread \in Threads : Cardinality(MutexesOf(thread)) <= 1
    /\ \A thread \in Threads :
          thread_at[thread].pos = "blocked" => MutexesOf(thread) = { }
    /\ \A m \in DOMAIN held :
          held[m] # "free" => thread_at[held[m]].pos = "locked"
    /\ \A worker \in LockWorkers : held[worker] \in { "free", worker }

\* C38: the monitors and the sequencer cannot deadlock.  No thread holds
\* two mutexes; a thread that waits for a mutex holds none, so no slot asks
\* for the mutex it already holds and no two threads wait for each other;
\* every mutex that is held belongs to a thread inside its with block, which
\* ends by releasing it also when the device call raised; a worker's mutex
\* is only ever held by the worker's own thread; so every monitor polls
\* again and again, whatever the sequencer does and also when it never
\* leaves its wait.
C38_NoDeadlock ==
    /\ []LockDiscipline
    /\ \A worker \in LockWorkers : []<>PollingUnderLock(worker)

\* The sequencer is in a wait pass that did not meet its target before,
\* blocked on its mutex while the GUI holds it, and a monitor polls a worker
\* whose checked command is still posted.
C38_Witness ==
    /\ thread_at["io_worker"].pos = "blocked"
    /\ held["io_worker"] = "gui"
    /\ \E worker \in LockWorkers :
          /\ thread_at["io_worker"].slot = worker
          /\ thread_at[worker] = [ pos |-> "locked", slot |-> "monitor",
                                   wants |-> worker ]
          /\ held[worker] = worker
          /\ "check" \in queued[worker]

====
